---- MODULE Spec2Model ----
(***************************************************************************)
(* A model of the ore-martingale-bot betting engine:                       *)
(*   - the martingale strategy    (src/src/mining/strategy.rs)             *)
(*   - the transaction executor   (src/src/mining/executor.rs)             *)
(*   - the round orchestrator     (src/src/main.rs)                        *)
(*   - the ledger it talks to     (RPC reads, transactions, slots)         *)
(*                                                                         *)
(*   - the Synchronizer           (src/src/subscription.rs)                *)
(*   - the account records        (src/src/ore/state.rs)                   *)
(*                                                                         *)
(* The specifications share the variables:                                 *)
(*   SpecStrategy  any sequence of MartingaleState operations              *)
(*   SpecExec      one executor call and its retry loop                    *)
(*   Spec          main() and run_betting_round against the ledger         *)
(*   SpecLive      Spec with the fairness of the tokio scheduler           *)
(*   SpecTasks     Spec with the steps of the reward tasks spawned on wins *)
(*   SpecSync      the connection worker, its keep-alive task and a call   *)
(*                 of wait_for_wss_update                                  *)
(*   SpecSyncLive  SpecSync with the fairness of the tokio scheduler       *)
(*   SpecRound     Round::rng and Round::winning_square on sample hashes   *)
(*                                                                         *)
(* Option<T> is a sequence of length 0 (None) or 1 (Some).                 *)
(* Result<T> is a record [ok, val, err].                                   *)
(***************************************************************************)
EXTENDS Integers, Sequences, FiniteSets, TLC

VARIABLES
    config,        \* BotConfig, fixed at start-up
    state,         \* the MartingaleState behind Arc<Mutex<..>>
    last_call,     \* the last MartingaleState operation and what it returned
    streak,        \* on_loss calls since the state was fresh or reset
    slot,          \* ledger: the current slot; it also names the latest blockhash
    board,         \* ledger: the Board account
    ledger_miner,  \* ledger: the agent's Miner account, if it exists
    slot_hashes,   \* ledger: per round, the slot_hash of its Round account
    exec,          \* the executor call of the main flow: its locals and position
    last_tx,       \* the transaction the executor call in flight handed to the node last
    mainpc,        \* where the main task stands (main and run_betting_round)
    round,         \* the locals of run_betting_round, and its result for main
    tasks,         \* the reward tasks spawned on wins, with what they captured
    last_notice,   \* the last notification handed to the notifier
    limit_reached, \* history: on_loss has returned should_continue = false
    state_at_entry,\* history: the MartingaleState when run_betting_round began
    at_prepare,    \* history: the ledger's Miner when the bet in flight was prepared
    low_balance,   \* history: a balance read was below the configured floor
    bets,          \* history: the round_id of every bet an execute_* call returned Ok for
    stats_sent,    \* history: the total_rounds of every notify_stats call
    wss,           \* the Synchronizer's connection worker and its keep-alive task
    miner_state,   \* the snapshot behind Arc<RwLock<Option<Miner>>>
    wait,          \* a call of wait_for_wss_update: its locals and position
    held,          \* the locks held by tasks that stand at an await
    sample         \* a slot_hash handed to Round::rng and what came of it

stratVars == <<config, state, last_call, streak>>
ledgerVars == <<slot, board, ledger_miner, slot_hashes>>
execVars == <<exec, last_tx>>
orchVars == <<mainpc, round, tasks, last_notice>>
histVars == <<limit_reached, state_at_entry, at_prepare, low_balance, bets, stats_sent>>
syncVars == <<wss, miner_state, wait>>

vars == <<config, state, last_call, streak, slot, board, ledger_miner, slot_hashes,
          exec, last_tx, mainpc, round, tasks, last_notice,
          limit_reached, state_at_entry, at_prepare, low_balance, bets, stats_sent,
          wss, miner_state, wait, held, sample>>

None == <<>>
Some(x) == <<x>>
IsSome(o) == Len(o) = 1
Unwrap(o) == o[1]

Min(a, b) == IF a <= b THEN a ELSE b

RECURSIVE Pow(_, _)
Pow(b, e) == IF e = 0 THEN 1 ELSE b * Pow(b, e - 1)

Ok(v) == [ok |-> TRUE, val |-> Some(v), err |-> None]
Err(e) == [ok |-> FALSE, val |-> None, err |-> Some(e)]

(***************************************************************************)
(* Bounds of the model                                                     *)
(***************************************************************************)
MaxPlayed == 3       \* settled bets (wins + losses) in one SpecStrategy behaviour
MaxTotalBet == 4     \* record_bet is tried while total_bet_lamports is below this
MaxEarned == 2       \* update_earnings is tried while total_earned_sol is below this
MaxCap == 3          \* largest max_consecutive_losses tried
MaxBaseAmount == 5   \* largest base_bet_amount tried, in half lamports
MaxAmount == 8       \* largest amount of SOL in a configuration, in half lamports
MaxSlot == 5         \* the ledger stops producing slots here
RoundLen == 2        \* slots in a round: end_slot - start_slot
FirstRound == 6      \* the Board's round_id when the program starts
MaxBlockhashAge == 1 \* slots after which the ledger refuses a blockhash
MaxStaked == 2       \* a bet is prepared while total_bet_lamports is below this
MaxRewards == 2      \* the ledger credits rewards while it has credited less than this

(***************************************************************************)
(* config.rs                                                               *)
(***************************************************************************)

\* The f64 multipliers tried, as exact fractions num/den. All are dyadic, so
\* the f64 product old_bet * multiplier is exact for the stakes of the model.
Multipliers == { [num |-> 1, den |-> 2], [num |-> 1, den |-> 1],
                 [num |-> 3, den |-> 2], [num |-> 2, den |-> 1] }

\* f64 arithmetic on the amounts of the configuration. An amount of SOL is
\* held as a whole number h of half lamports, the decimal h * 0.5e-9 of the
\* TOML file. Naturals beyond 2^31 are sequences of digits, the most
\* significant first, in base 256 (Wide) or base 2 (Bits); a float is
\* [m |-> binary digits, e |-> exponent], m * 2^e.
RECURSIVE Wide(_)
Wide(n) == IF n = 0 THEN <<>> ELSE Append(Wide(n \div 256), n % 256)

RECURSIVE FromBits(_)
FromBits(b) ==
    IF b = <<>> THEN 0 ELSE 2 * FromBits(SubSeq(b, 1, Len(b) - 1)) + b[Len(b)]

Zeros(n) == [i \in 1..n |-> 0]

\* the binary digits of w, and the base-256 digits of b
BitsOfWide(w) ==
    [i \in 1..(8 * Len(w)) |-> (w[(i + 7) \div 8] \div Pow(2, 7 - ((i - 1) % 8))) % 2]

WideOfBits(b) ==
    LET padded == Zeros((8 - (Len(b) % 8)) % 8) \o b
    IN  [k \in 1..(Len(padded) \div 8) |-> FromBits(SubSeq(padded, 8 * k - 7, 8 * k))]

StripZeros(b) ==
    IF \A i \in DOMAIN b : b[i] = 0 THEN <<>>
    ELSE LET first == CHOOSE i \in DOMAIN b : b[i] = 1 /\ \A j \in 1..(i - 1) : b[j] = 0
         IN  SubSeq(b, first, Len(b))

AddOne(b) ==
    IF \A i \in DOMAIN b : b[i] = 1 THEN <<1>> \o Zeros(Len(b))
    ELSE LET last == CHOOSE i \in DOMAIN b : b[i] = 0 /\ \A j \in (i + 1)..Len(b) : b[j] = 1
         IN  [i \in DOMAIN b |-> IF i < last THEN b[i] ELSE IF i = last THEN 1 ELSE 0]

\* w divided by d, d below 2^21: the quotient's digits and the remainder
RECURSIVE DivWide(_, _)
DivWide(w, d) ==
    IF w = <<>> THEN [q |-> <<>>, r |-> 0]
    ELSE LET front == DivWide(SubSeq(w, 1, Len(w) - 1), d)
             t == 256 * front.r + w[Len(w)]
         IN  [q |-> Append(front.q, t \div d), r |-> t % d]

\* w times d plus carry, d below 2^21
RECURSIVE MulWide(_, _, _)
MulWide(w, d, carry) ==
    IF w = <<>> THEN Wide(carry)
    ELSE LET t == carry + w[Len(w)] * d
         IN  Append(MulWide(SubSeq(w, 1, Len(w) - 1), d, t \div 256), t % 256)

\* the f64 nearest to b (or to a little more than b when `inexact`): 53
\* binary digits, ties to the even one
RoundToF64(b, inexact) ==
    IF Len(b) <= 53 THEN [m |-> b, e |-> 0]
    ELSE LET m == SubSeq(b, 1, 53)
             rest == inexact \/ \E i \in 55..Len(b) : b[i] = 1
             up == b[54] = 1 /\ (rest \/ m[53] = 1)
         IN  [m |-> IF up THEN AddOne(m) ELSE m, e |-> Len(b) - 53]

FIVE_POW_9 == 1953125
F64_GUARD_BYTES == 10

\* the f64 a TOML amount of h half lamports is read as: the nearest to
\* h / (2^10 * 5^9)
f64_of_sol(h) ==
    LET quot == DivWide(Wide(h) \o Zeros(F64_GUARD_BYTES), FIVE_POW_9)
        x == RoundToF64(StripZeros(BitsOfWide(quot.q)), quot.r # 0)
    IN  [m |-> x.m, e |-> x.e - 8 * F64_GUARD_BYTES - 10]

\* (x * 1_000_000_000.0) as u64: the f64 product, rounded once, then cut to
\* a whole number. 1e9 is 5^9 * 2^9; the amounts of the model stay below 2^31.
mul_1e9_as_u64(x) ==
    LET product == BitsOfWide(MulWide(WideOfBits(x.m), FIVE_POW_9, 0))
        y == RoundToF64(StripZeros(product), FALSE)
        e == x.e + 9 + y.e
    IN  IF e >= 0 THEN FromBits(y.m \o Zeros(e))
        ELSE IF -e >= Len(y.m) THEN 0
        ELSE FromBits(SubSeq(y.m, 1, Len(y.m) + e))

\* the conversion of every amount a configuration of the model holds, worked
\* out once
LamportsOfAmount == [h \in 0..MaxAmount |-> mul_1e9_as_u64(f64_of_sol(h))]

sol_to_lamports(h) ==
    IF h \in DOMAIN LamportsOfAmount THEN LamportsOfAmount[h] ELSE mul_1e9_as_u64(f64_of_sol(h))

\* MartingaleConfig::base_bet_lamports: (base_bet_amount * 1e9) as u64, the
\* f64 product cut to a whole number. base_bet_amount is held in half
\* lamports (0.5e-9 SOL).
base_bet_lamports(cfg) == sol_to_lamports(cfg.base_bet_amount)

\* load_config accepts a MartingaleConfig iff blocks_per_bet is in 1..25 and
\* warn_consecutive_losses <= max_consecutive_losses.
ConfigValid(cfg) ==
    /\ ~(cfg.blocks_per_bet = 0 \/ cfg.blocks_per_bet > 25)
    /\ ~(cfg.warn_consecutive_losses > cfg.max_consecutive_losses)

(***************************************************************************)
(* mining/strategy.rs                                                      *)
(***************************************************************************)

\* MartingaleState::new
new(base_bet) ==
    [ current_round              |-> 0,
      current_bet_per_block      |-> base_bet,
      consecutive_losses         |-> 0,
      total_bet_lamports         |-> 0,
      current_cycle_bet_lamports |-> 0,
      total_earned_ore           |-> 0,
      total_earned_sol           |-> 0,
      last_win_time              |-> None,
      win_count                  |-> 0,
      loss_count                 |-> 0 ]

\* MartingaleState::update_earnings
update_earnings(s, ore_reward, sol_reward) ==
    [s EXCEPT !.total_earned_ore = @ + ore_reward,
              !.total_earned_sol = @ + sol_reward]

\* MartingaleState::reset_after_win; `now` is chrono::Utc::now().timestamp().
reset_after_win_keeps_bet(s, cfg, now) ==
    [s EXCEPT !.consecutive_losses = 0,
              !.current_cycle_bet_lamports = 0,
              !.last_win_time = Some(now),
              !.win_count = @ + 1]

\* reset_after_win without `self.win_count += 1`
reset_after_win_uncounted(s, cfg, now) ==
    [s EXCEPT !.consecutive_losses = 0,
              !.current_cycle_bet_lamports = 0,
              !.last_win_time = Some(now),
              !.current_bet_per_block = base_bet_lamports(cfg)]

reset_after_win(s, cfg, now) ==
    [s EXCEPT !.consecutive_losses = 0,
              !.current_cycle_bet_lamports = 0,
              !.last_win_time = Some(now),
              !.win_count = @ + 1,
              !.current_bet_per_block = base_bet_lamports(cfg)]

\* win_count + loss_count: total_rounds in main.rs, the denominator of win_rate
Played(s) == s.win_count + s.loss_count

\* MartingaleState::reset
reset(s, cfg) ==
    [s EXCEPT !.consecutive_losses = 0,
              !.current_bet_per_block = base_bet_lamports(cfg),
              !.current_cycle_bet_lamports = 0]

\* ((old_bet as f64) * multiplier).round() as u64: f64::round rounds half
\* away from zero; the operands are non-negative.
ScaleBetTruncating(old_bet, multiplier) ==
    (old_bet * multiplier.num) \div multiplier.den

ScaleBet(old_bet, multiplier) ==
    (2 * old_bet * multiplier.num + multiplier.den) \div (2 * multiplier.den)

\* on_loss with should_warn = consecutive_losses > warn_consecutive_losses
on_loss_warns_late(s, cfg) ==
    LET s1 == [s EXCEPT !.consecutive_losses = @ + 1, !.loss_count = @ + 1]
        should_warn == s1.consecutive_losses > cfg.warn_consecutive_losses
    IN  IF s1.consecutive_losses >= cfg.max_consecutive_losses
        THEN [state |-> reset(s1, cfg),
              should_continue |-> FALSE, should_warn |-> should_warn]
        ELSE [state |-> [s1 EXCEPT !.current_bet_per_block =
                                       ScaleBet(@, cfg.multiplier)],
              should_continue |-> TRUE, should_warn |-> should_warn]

\* on_loss that resets once the count is past the cap
on_loss_caps_late(s, cfg) ==
    LET s1 == [s EXCEPT !.consecutive_losses = @ + 1, !.loss_count = @ + 1]
        should_warn == s1.consecutive_losses >= cfg.warn_consecutive_losses
    IN  IF s1.consecutive_losses > cfg.max_consecutive_losses
        THEN [state |-> reset(s1, cfg),
              should_continue |-> FALSE, should_warn |-> should_warn]
        ELSE [state |-> [s1 EXCEPT !.current_bet_per_block =
                                       ScaleBet(@, cfg.multiplier)],
              should_continue |-> TRUE, should_warn |-> should_warn]

\* MartingaleState::on_loss, returning the new state with the pair
\* (should_continue, should_warn).
on_loss(s, cfg) ==
    LET s1 == [s EXCEPT !.consecutive_losses = @ + 1, !.loss_count = @ + 1]
        should_warn == s1.consecutive_losses >= cfg.warn_consecutive_losses
    IN  IF s1.consecutive_losses >= cfg.max_consecutive_losses
        THEN [state |-> reset(s1, cfg),
              should_continue |-> FALSE, should_warn |-> should_warn]
        ELSE [state |-> [s1 EXCEPT !.current_bet_per_block =
                                       ScaleBet(@, cfg.multiplier)],
              should_continue |-> TRUE, should_warn |-> should_warn]

\* MartingaleState::record_bet
record_bet(s, total_bet) ==
    [s EXCEPT !.total_bet_lamports = @ + total_bet,
              !.current_cycle_bet_lamports = @ + total_bet]

\* MartingaleState::net_profit_sol
net_profit_sol(s) == s.total_earned_sol - s.total_bet_lamports

Call(op, cont, warn, k) ==
    [op |-> op, should_continue |-> cont, should_warn |-> warn, k |-> k]

(***************************************************************************)
(* mining/grid.rs                                                          *)
(***************************************************************************)
GRID_SIZE == 5
TOTAL_BLOCKS == GRID_SIZE * GRID_SIZE

\* BlockPosition::from_index: assert!(index < TOTAL_BLOCKS as u8) panics on
\* an index of 25 or more, so no position is built for one
from_index(index) ==
    IF index < TOTAL_BLOCKS
    THEN [row |-> index \div GRID_SIZE, col |-> index % GRID_SIZE, index |-> index]
    ELSE [panic |-> "assertion failed: index < TOTAL_BLOCKS as u8"]

(***************************************************************************)
(* ore/pda.rs: a derived address is modelled by its seeds                  *)
(***************************************************************************)
get_board_pda == <<"board">>
get_round_pda(round_id) == <<"round", round_id>>
get_miner_pda(authority) == <<"miner", authority>>
get_automation_pda(authority) == <<"automation", authority>>
get_treasury_pda == <<"treasury">>

\* the agent's public key, signer.pubkey()
SignerPubkey == "agent"
SystemProgram == <<"system_program">>

(***************************************************************************)
(* ore/instruction.rs                                                      *)
(***************************************************************************)
DEPLOY_DISCRIMINATOR == 6
CHECKPOINT_DISCRIMINATOR == 2
CLAIM_SOL_DISCRIMINATOR == 3

\* u64::to_le_bytes / u32::to_le_bytes: the `len` low bytes, lowest first
RECURSIVE to_le_bytes(_, _)
to_le_bytes(n, len) ==
    IF len = 0 THEN <<>> ELSE <<n % 256>> \o to_le_bytes(n \div 256, len - 1)

\* mask |= 1 << (i + 1) in place of 1 << i
RECURSIVE SquaresMaskShifted(_, _)
SquaresMaskShifted(squares, upto) ==
    IF upto = 0 THEN 0
    ELSE SquaresMaskShifted(squares, upto - 1)
         + (IF squares[upto - 1] THEN Pow(2, upto) ELSE 0)

\* mask |= 1 << i for every i < upto with squares[i]
RECURSIVE SquaresMask(_, _)
SquaresMask(squares, upto) ==
    IF upto = 0 THEN 0
    ELSE SquaresMask(squares, upto - 1)
         + (IF squares[upto - 1] THEN Pow(2, upto - 1) ELSE 0)

\* let mut squares = [false; 25]; squares[block.index] = true for each block
SquaresOf(blocks) ==
    [i \in 0..(TOTAL_BLOCKS - 1) |-> \E k \in DOMAIN blocks : blocks[k].index = i]

build_deploy_instruction(signer, authority, amount, round_id, squares) ==
    [ accounts |-> << signer, authority, get_automation_pda(authority),
                      get_board_pda, get_miner_pda(authority),
                      get_round_pda(round_id), SystemProgram >>,
      data |-> <<DEPLOY_DISCRIMINATOR>> \o to_le_bytes(amount, 8)
                   \o to_le_bytes(SquaresMask(squares, TOTAL_BLOCKS), 4) ]

build_checkpoint_instruction(signer, miner_authority, miner_round_id) ==
    [ accounts |-> << signer, get_board_pda, get_miner_pda(miner_authority),
                      get_round_pda(miner_round_id), get_treasury_pda,
                      SystemProgram >>,
      data |-> <<CHECKPOINT_DISCRIMINATOR>> ]

build_claim_sol_instruction(signer) ==
    [ accounts |-> << signer, get_miner_pda(signer), SystemProgram >>,
      data |-> <<CLAIM_SOL_DISCRIMINATOR>> ]

\* what an instruction is and which Round account it names
IsDeploy(ix) == ix.data[1] = DEPLOY_DISCRIMINATOR
IsCheckpoint(ix) == ix.data[1] = CHECKPOINT_DISCRIMINATOR
IsClaim(ix) == ix.data[1] = CLAIM_SOL_DISCRIMINATOR
RoundOf(ix) == IF IsDeploy(ix) THEN ix.accounts[6][2] ELSE ix.accounts[4][2]

\* bit i of a little-endian byte string
BitOf(bytes, i) == (bytes[1 + i \div 8] \div Pow(2, i % 8)) % 2

\* the number of bits set among the first n of a little-endian byte string
RECURSIVE BitsSet(_, _)
BitsSet(bytes, n) == IF n = 0 THEN 0 ELSE BitsSet(bytes, n - 1) + BitOf(bytes, n - 1)

(***************************************************************************)
(* The ledger: slots, the Board, the agent's Miner account, and what a     *)
(* transaction does to them. A transaction is applied whole or not at all. *)
(***************************************************************************)
Miner(checkpoint_id, round_id, rewards_sol, rewards_ore) ==
    [ checkpoint_id |-> checkpoint_id, round_id |-> round_id,
      rewards_sol |-> rewards_sol, rewards_ore |-> rewards_ore ]

\* OreClient::is_round_active / is_round_complete for a slot already read
RoundActiveToEnd(b, s) == s >= b.start_slot /\ s <= b.end_slot
RoundActive(b, s) == s >= b.start_slot /\ s < b.end_slot
RoundComplete(b, s) == s >= b.end_slot

\* Checkpoint settles the round the miner last played, once that round is
\* over; it changes nothing for a miner that is settled already.
LedgerCheckpoint(l, ix) ==
    IF ~l.ok \/ ~IsSome(l.miner) THEN [l EXCEPT !.ok = FALSE]
    ELSE LET m == Unwrap(l.miner)
         IN  IF m.checkpoint_id = m.round_id \/ RoundOf(ix) = board.round_id
             THEN l
             ELSE IF RoundOf(ix) # m.round_id THEN [l EXCEPT !.ok = FALSE]
             ELSE [l EXCEPT !.miner = Some([m EXCEPT !.checkpoint_id = m.round_id])]

\* Deploy stakes in the Board's active round; a miner that moves to a new
\* round must have been settled for the round it played before.
LedgerDeploy(l, ix) ==
    IF ~l.ok \/ RoundOf(ix) # board.round_id \/ ~RoundActive(board, slot)
    THEN [l EXCEPT !.ok = FALSE]
    ELSE IF ~IsSome(l.miner)
    THEN [l EXCEPT !.miner = Some(Miner(0, board.round_id, 0, 0))]
    ELSE LET m == Unwrap(l.miner)
         IN  IF m.round_id = board.round_id THEN l
             ELSE IF m.checkpoint_id # m.round_id THEN [l EXCEPT !.ok = FALSE]
             ELSE [l EXCEPT !.miner = Some([m EXCEPT !.round_id = board.round_id])]

LedgerClaim(l, ix) ==
    IF ~l.ok \/ ~IsSome(l.miner) THEN [l EXCEPT !.ok = FALSE]
    ELSE [l EXCEPT !.miner = Some([Unwrap(l.miner) EXCEPT !.rewards_sol = 0])]

RECURSIVE LedgerRun(_, _)
LedgerRun(l, instructions) ==
    IF instructions = <<>> THEN l
    ELSE LET ix == Head(instructions)
             l1 == IF IsDeploy(ix) THEN LedgerDeploy(l, ix)
                   ELSE IF IsCheckpoint(ix) THEN LedgerCheckpoint(l, ix)
                   ELSE LedgerClaim(l, ix)
         IN  LedgerRun(l1, Tail(instructions))

\* the outcome of processing `tx` now: whether it lands, and the Miner after
LedgerProcess(tx) ==
    LedgerRun([ok |-> slot - tx.recent_blockhash <= MaxBlockhashAge,
               miner |-> ledger_miner], tx.instructions)

(***************************************************************************)
(* mining/executor.rs                                                      *)
(***************************************************************************)
MAX_TX_RETRIES == 3

\* TransactionExecutor::new(solana_client, MAX_TX_RETRIES)
max_retries == MAX_TX_RETRIES

\* execute_bet: one Deploy covering all selected blocks
execute_bet(signer, round_id, blocks, bet_per_block) ==
    << build_deploy_instruction(signer, signer, bet_per_block, round_id,
                                SquaresOf(blocks)) >>

\* execute_checkpoint_and_bet: vec![checkpoint_ix, deploy_ix]
execute_checkpoint_and_bet_deploy_first(signer, miner_round_id, bet_round_id, blocks, bet_per_block) ==
    << build_deploy_instruction(signer, signer, bet_per_block, bet_round_id,
                                SquaresOf(blocks)),
       build_checkpoint_instruction(signer, signer, miner_round_id) >>

execute_checkpoint_and_bet(signer, miner_round_id, bet_round_id, blocks, bet_per_block) ==
    << build_checkpoint_instruction(signer, signer, miner_round_id),
       build_deploy_instruction(signer, signer, bet_per_block, bet_round_id,
                                SquaresOf(blocks)) >>

\* execute_claim_sol
execute_claim_sol(signer) == << build_claim_sol_instruction(signer) >>

\* The locals of send_transaction: every call starts with none of them set.
NoFrame == [recent_blockhash |-> None, transaction |-> None]

ExecIdle ==
    [ pc |-> "idle", call |-> "none", instructions |-> <<>>, attempt |-> 0,
      last_error |-> None, frame |-> NoFrame, result |-> None, delay_ms |-> 0 ]

\* send_transaction_with_retry is entered: last_error = None, and the loop
\* `for attempt in 1..=max_retries` starts, or is over at once.
send_transaction_with_retry(call, instructions) ==
    IF max_retries >= 1
    THEN [ExecIdle EXCEPT !.pc = "fetch", !.call = call,
                          !.instructions = instructions, !.attempt = 1]
    ELSE [ExecIdle EXCEPT !.pc = "returned", !.call = call,
                          !.instructions = instructions,
                          !.result = Some(Err([at |-> "no attempt", attempt |-> 0]))]

\* last_error = Some(e)
KeepFirstError(last_error, e) == IF IsSome(last_error) THEN last_error ELSE Some(e)

RecordError(last_error, e) == Some(e)

\* Where the loop resumes after the backoff sleep: at the next call of
\* send_transaction, which fetches and signs again.
ResumeAtSend(e) == [e EXCEPT !.pc = "send", !.attempt = @ + 1]

ResumeAttempt(e) ==
    [e EXCEPT !.pc = "fetch", !.attempt = @ + 1, !.frame = NoFrame]

\* Err(e) arm of the retry loop: remember the error, back off if attempts
\* remain, else leave the loop and return Err(last_error).
AttemptFailed(e, error) ==
    LET le == RecordError(e.last_error, error)
    IN  IF e.attempt < max_retries
        THEN [e EXCEPT !.last_error = le, !.pc = "backoff",
                       !.delay_ms = 100 * Pow(2, e.attempt)]
        ELSE [e EXCEPT !.last_error = le, !.pc = "returned",
                       !.result = Some(Err(Unwrap(le)))]

\* transaction.sign(&[signer], recent_blockhash): the signature is a function
\* of the message (payer, instructions) and the blockhash.
Sign(signer, instructions, recent_blockhash) ==
    [ signer |-> signer, instructions |-> instructions,
      recent_blockhash |-> recent_blockhash ]

\* send_transaction: self.solana.rpc.get_latest_blockhash().await?
ExecGetBlockhashOk ==
    /\ exec.pc = "fetch"
    /\ exec' = [exec EXCEPT !.pc = "sign",
                            !.frame.recent_blockhash =
                                Some([hash |-> slot, attempt |-> exec.attempt])]
    /\ UNCHANGED <<stratVars, ledgerVars, last_tx, orchVars, histVars, syncVars, held, sample>>

ExecGetBlockhashErr ==
    /\ exec.pc = "fetch"
    /\ exec' = AttemptFailed(exec, [at |-> "get_latest_blockhash",
                                    attempt |-> exec.attempt])
    /\ UNCHANGED <<stratVars, ledgerVars, last_tx, orchVars, histVars, syncVars, held, sample>>

\* send_transaction: Transaction::new_with_payer, transaction.sign
ExecSign ==
    /\ exec.pc = "sign"
    /\ LET bh == Unwrap(exec.frame.recent_blockhash)
       IN  exec' = [exec EXCEPT
               !.pc = "send",
               !.frame.transaction =
                   Some([ instructions |-> exec.instructions,
                          recent_blockhash |-> bh.hash,
                          signature |-> Sign(SignerPubkey, exec.instructions,
                                             bh.hash),
                          fetched_in |-> bh.attempt,
                          signed_in |-> exec.attempt ])]
    /\ UNCHANGED <<stratVars, ledgerVars, last_tx, orchVars, histVars, syncVars, held, sample>>

Submitted(e) ==
    Some([ tx |-> Unwrap(e.frame.transaction), call |-> e.call,
           attempt |-> e.attempt ])

\* send_and_confirm_transaction: the transaction lands and is confirmed
ExecSendConfirmed ==
    /\ exec.pc = "send"
    /\ IsSome(exec.frame.transaction)
    /\ LET tx == Unwrap(exec.frame.transaction)
           l == LedgerProcess(tx)
       IN  /\ l.ok
           /\ ledger_miner' = l.miner
           /\ exec' = [exec EXCEPT !.pc = "returned",
                                   !.result = Some(Ok(tx.signature))]
    /\ last_tx' = Submitted(exec)
    /\ UNCHANGED <<stratVars, slot, board, slot_hashes, orchVars, histVars, syncVars, held, sample>>

\* send_and_confirm_transaction: the node or the ledger refuses the
\* transaction (network failure, stale blockhash, program error)
ExecSendRejected ==
    /\ exec.pc = "send"
    /\ IsSome(exec.frame.transaction)
    /\ exec' = AttemptFailed(exec, [at |-> "send_and_confirm_transaction",
                                    attempt |-> exec.attempt])
    /\ last_tx' = Submitted(exec)
    /\ UNCHANGED <<stratVars, ledgerVars, orchVars, histVars, syncVars, held, sample>>

\* send_and_confirm_transaction: the transaction lands, but its confirmation
\* does not reach the client, which sees an error
ExecSendLost ==
    /\ exec.pc = "send"
    /\ IsSome(exec.frame.transaction)
    /\ LET tx == Unwrap(exec.frame.transaction)
           l == LedgerProcess(tx)
       IN  /\ l.ok
           /\ ledger_miner' = l.miner
    /\ exec' = AttemptFailed(exec, [at |-> "confirmation",
                                    attempt |-> exec.attempt])
    /\ last_tx' = Submitted(exec)
    /\ UNCHANGED <<stratVars, slot, board, slot_hashes, orchVars, histVars, syncVars, held, sample>>

\* tokio::time::sleep(delay), then the next iteration of the loop
ExecBackoff ==
    /\ exec.pc = "backoff"
    /\ exec' = ResumeAttempt(exec)
    /\ UNCHANGED <<stratVars, ledgerVars, last_tx, orchVars, histVars, syncVars, held, sample>>

\* the ledger produces the next slot
Tick ==
    /\ slot < MaxSlot
    /\ slot' = slot + 1
    /\ UNCHANGED <<stratVars, board, ledger_miner, slot_hashes, execVars,
                   orchVars, histVars, syncVars, held, sample>>

(***************************************************************************)
(* ore/state.rs, ore/mod.rs: reading accounts                              *)
(***************************************************************************)

\* A u64 that may not fit the integers of the model checker is held as its
\* four 16-bit limbs, the most significant first.
LIMB == 65536

\* the u64 of a value below 2^31
U64(n) == <<0, 0, n \div LIMB, n % LIMB>>

U64_MAX == <<LIMB - 1, LIMB - 1, LIMB - 1, LIMB - 1>>

\* [b; n]
Bytes(b, n) == [i \in 1..n |-> b]

\* the slot_hash of a Round before the ledger has settled it, and a slot_hash
\* whose rng is r
UnsettledHash == Bytes(0, 32)
SettledHash(r) == to_le_bytes(r, 8) \o to_le_bytes(0, 24)

\* u64::from_le_bytes: the first of the eight bytes is the least significant
from_le_bytes(bytes) == [i \in 1..4 |-> bytes[10 - 2 * i] * 256 + bytes[9 - 2 * i]]

\* ^ on the bits of two limbs
RECURSIVE BitXor(_, _)
BitXor(a, b) ==
    IF a = 0 THEN b
    ELSE IF b = 0 THEN a
    ELSE ((a + b) % 2) + 2 * BitXor(a \div 2, b \div 2)

\* u64 ^ u64
xor(x, y) == [i \in 1..4 |-> BitXor(x[i], y[i])]

\* u64 % m, for m below 2^15: long division over the limbs
rem(x, m) ==
    LET step(acc, limb) == (acc * LIMB + limb) % m
    IN  step(step(step(step(0, x[1]), x[2]), x[3]), x[4])

\* Round::rng with the XOR of zero read as "no rng"
rng_absent_when_zero(account) ==
    LET h == account.slot_hash
        r == xor(xor(xor(from_le_bytes(SubSeq(h, 1, 8)), from_le_bytes(SubSeq(h, 9, 16))),
                     from_le_bytes(SubSeq(h, 17, 24))),
                 from_le_bytes(SubSeq(h, 25, 32)))
    IN  IF r = U64(0) \/ h = Bytes(255, 32) THEN None ELSE Some(r)

\* Round::rng
rng(account) ==
    LET h == account.slot_hash
        r1 == from_le_bytes(SubSeq(h, 1, 8))
        r2 == from_le_bytes(SubSeq(h, 9, 16))
        r3 == from_le_bytes(SubSeq(h, 17, 24))
        r4 == from_le_bytes(SubSeq(h, 25, 32))
    IN  IF h = Bytes(0, 32) \/ h = Bytes(255, 32)
        THEN None
        ELSE Some(xor(xor(xor(r1, r2), r3), r4))

\* Round::winning_square on the low limb only
winning_square_low_limb(r) == r[4] % 25

\* Round::winning_square: (rng % 25) as usize
winning_square(r) == rem(r, 25)

RpcError == [at |-> "rpc", attempt |-> 0]

\* What rpc.get_account_data can answer for an account holding `value`: its
\* data, or a failure of the call. `fault` says how the bytes fail to be the
\* record: "short" (fewer than 8 + size_of::<T>() bytes), "layout" (bytemuck
\* refuses them), or "none".
AccountData(value) == [fault |-> "none", value |-> value]
RpcRead(value) == { Ok(AccountData(value)), Err(RpcError) }

\* What it can answer for the Miner address: the account may not exist
\* (an error of the call), and a node may answer with bytes that do not
\* decode.
RpcReadMiner(miner) ==
    IF IsSome(miner)
    THEN RpcRead(Unwrap(miner))
         \cup { Ok([fault |-> f, value |-> Unwrap(miner)]) : f \in {"short", "layout"} }
    ELSE { Err([at |-> "AccountNotFound", attempt |-> 0]) }

\* the Round account of round r as the ledger holds it
RoundAccount(r) == [id |-> r, slot_hash |-> slot_hashes[r]]

\* What rpc.get_slot / rpc.get_balance can answer
RpcValue(v) == { Ok(v), Err(RpcError) }

\* deserialize_account: the length check, then bytemuck::try_from_bytes
deserialize_account(data) ==
    IF data.fault = "short" THEN Err([at |-> "Account data too short", attempt |-> 0])
    ELSE IF data.fault = "layout"
    THEN Err([at |-> "Failed to deserialize account", attempt |-> 0])
    ELSE Ok(data.value)

\* OreClient::get_board, OreClient::get_round: `?` on the call and the decode
get_account(rpc) ==
    IF rpc.ok THEN deserialize_account(Unwrap(rpc.val)) ELSE Err(Unwrap(rpc.err))

\* OreClient::get_miner: every error of the call is read as "no account"
get_miner(rpc) ==
    IF rpc.ok
    THEN LET d == deserialize_account(Unwrap(rpc.val))
         IN  IF d.ok THEN Ok(Some(Unwrap(d.val))) ELSE Err(Unwrap(d.err))
    ELSE Ok(None)

\* The account structs are #[repr(C)] and made of 8-byte words where the
\* program reads them; a layout is the sequence of its field names. Board:
BoardLayout == <<"round_id", "start_slot", "end_slot">>

\* std::mem::size_of::<T>() and align_of::<T>() of such a struct
size_of(T) == 8 * Len(T)
align_of(T) == 8

\* a byte slice: its bytes and the address of the first; &s[from..]
Slice(bytes, addr) == [bytes |-> bytes, addr |-> addr]
SliceFrom(s, from) == Slice(SubSeq(s.bytes, from + 1, Len(s.bytes)), s.addr + from)
SliceTo(s, to) == Slice(SubSeq(s.bytes, 1, to), s.addr)

\* bytemuck::try_from_bytes::<T>: the slice must have the size of T and sit at
\* an address aligned for T; the fields are then the words of the slice, in
\* the byte order of the machine (little-endian)
try_from_bytes(T, s) ==
    IF Len(s.bytes) # size_of(T) \/ s.addr % align_of(T) # 0
    THEN Err([at |-> "Failed to deserialize account", attempt |-> 0])
    ELSE Ok([i \in 1..Len(T) |-> from_le_bytes(SubSeq(s.bytes, 8 * i - 7, 8 * i))])

\* deserialize_account without `&data[8..]`
deserialize_account_unskipped(T, data) ==
    IF Len(data.bytes) < 8 + size_of(T)
    THEN Err([at |-> "Account data too short", attempt |-> 0])
    ELSE try_from_bytes(T, SliceTo(data, size_of(T)))

\* deserialize_account::<T> on the bytes of the account
deserialize_account_as(T, data) ==
    IF Len(data.bytes) < 8 + size_of(T)
    THEN Err([at |-> "Account data too short", attempt |-> 0])
    ELSE try_from_bytes(T, SliceFrom(data, 8))

(***************************************************************************)
(* main.rs                                                                 *)
(***************************************************************************)
ROUND_COMPLETION_POLL_INTERVAL_SECS == 10
ROUND_COMPLETION_TIMEOUT_SECS == 120
MAX_RNG_ATTEMPTS == 20

\* MonitoringConfig::min_balance_lamports: (min_balance_sol * 1e9) as u64,
\* with min_balance_sol held in half lamports
min_balance_lamports(monitoring) == sol_to_lamports(monitoring.min_balance_sol)

\* grid::select_blocks(count): the first min(count, TOTAL_BLOCKS) indices of a
\* shuffle of 0..24, each through BlockPosition::from_index. Every order of
\* 0..24 is an outcome of the shuffle, so the Vecs it can return are the
\* sequences of that many positions, no position twice.
select_blocks(count) ==
    LET n == Min(count, TOTAL_BLOCKS)
    IN  { selected \in [1..n -> { from_index(i) : i \in 0..(TOTAL_BLOCKS - 1) }] :
            \A i \in 1..n : \A j \in 1..n : i # j => selected[i] # selected[j] }

\* the outcomes of select_blocks that the runs of main draw
BlockChoices == { <<from_index(0)>>, <<from_index(7), from_index(24)>> }

\* main.rs 248, 376: block_indices, the index of every selected block; the
\* code reads the Vec by `contains` alone, which the set answers alike
block_indices(blocks) == { blocks[k].index : k \in DOMAIN blocks }

\* select_blocks taking every pick but the first twice
take_repeating(indices, count) ==
    [i \in 1..Min(count, TOTAL_BLOCKS) |-> from_index(indices[(i + 2) \div 2])]

\* grid::select_blocks(count) once `indices` is shuffled: the first
\* min(count, TOTAL_BLOCKS) of them, each through BlockPosition::from_index
take(indices, count) ==
    [i \in 1..Min(count, TOTAL_BLOCKS) |-> from_index(indices[i])]

\* main.rs 254: total_bet = bet_per_block * (blocks.len() as u64)
bet_total(bet_per_block, blocks) == bet_per_block * Len(blocks)

\* the locals of run_betting_round before it has set them, and its result
NoBoard == [round_id |-> 0, start_slot |-> 0, end_slot |-> 0]

RoundIdle ==
    [ board |-> NoBoard, round_id |-> 0,
      rewards_sol_before |-> 0, rewards_ore_before |-> 0,
      blocks |-> <<>>, bet_per_block |-> 0, total_bet |-> 0,
      elapsed |-> 0, board_check |-> NoBoard,
      final_round |-> None, rng_attempts |-> 0,
      should_continue |-> TRUE, should_warn |-> FALSE, total_rounds |-> 0,
      result |-> None ]

Fails(where) == Some(Err([at |-> where, attempt |-> 0]))

\* run_betting_round returns: its locals go, the result is left for main
Return(res) == [RoundIdle EXCEPT !.result = res]

\* main.rs 273-326: which transaction the bet is, from the Miner just read
PlaceBetCheckpointId(miner, round_id, blocks, bet_per_block) ==
    IF IsSome(miner) /\ Unwrap(miner).checkpoint_id # Unwrap(miner).round_id
    THEN send_transaction_with_retry("execute_checkpoint_and_bet",
             execute_checkpoint_and_bet(SignerPubkey, Unwrap(miner).checkpoint_id,
                                        round_id, blocks, bet_per_block))
    ELSE send_transaction_with_retry("execute_bet",
             execute_bet(SignerPubkey, round_id, blocks, bet_per_block))

PlaceBet(miner, round_id, blocks, bet_per_block) ==
    IF IsSome(miner) /\ Unwrap(miner).checkpoint_id # Unwrap(miner).round_id
    THEN send_transaction_with_retry("execute_checkpoint_and_bet",
             execute_checkpoint_and_bet(SignerPubkey, Unwrap(miner).round_id,
                                        round_id, blocks, bet_per_block))
    ELSE send_transaction_with_retry("execute_bet",
             execute_bet(SignerPubkey, round_id, blocks, bet_per_block))

\* main.rs 285-293 (and 300-308, 316-324): record_bet on Ok only
BetOutcomeRecordedAlways(s, result, total_bet) == record_bet(s, total_bet)

BetOutcome(s, result, total_bet) ==
    IF result.ok THEN record_bet(s, total_bet) ELSE s

\* What a notify_* call of the Discord notifier can return
NotifyResults == { Ok("sent"), Err([at |-> "Discord webhook failed", attempt |-> 0]) }

\* main.rs 123-125, 134-136, 149-154: `if let Err(e) = discord.notify_error(..)`
\* logs the failure; the flow goes where it was going
OnNotifyResultFatal(sent, next) == IF sent.ok THEN next ELSE "failed"

OnNotifyResult(sent, next) == next

\* main.rs 59, 146: balance < config.monitoring.min_balance_lamports()
BalanceNeverTooLow(balance, monitoring) == FALSE

BalanceTooLow(balance, monitoring) == balance < min_balance_lamports(monitoring)

\* main.rs 118-142: what the outer loop does with the round's result
LoopNeverBreaks(result) == IF result.ok THEN "continue" ELSE "cooldown"

LoopControl(result) ==
    IF result.ok
    THEN IF Unwrap(result.val) THEN "continue" ELSE "break"
    ELSE "cooldown"

(***************************************************************************)
(* Locks: the MartingaleState mutex, the snapshot RwLock and the mutex     *)
(* around the write half of the stream. `held` has a pair <<task, lock>>   *)
(* for every guard that is alive while its task stands at an await.        *)
(***************************************************************************)
lock(h, task, l) == h \cup {<<task, l>>}

\* a drop that leaves the guard alive
drop_forgotten(h, task, l) == h

\* drop(guard), or the guard going out of scope
drop(h, task, l) == h \ {<<task, l>>}

\* a guard taken and gone within one statement or block that has no await
scoped(h, task, l) == drop(lock(h, task, l), task, l)

\* JoinHandle::abort: the future of the task is dropped, and its guards with it
abort(h, task) == { p \in h : p[1] # task }

Free(h, l) == \A p \in h : p[2] # l

(***************************************************************************)
(* subscription.rs: the Synchronizer                                       *)
(***************************************************************************)
INITIAL_RETRY_DELAY_MS == 1000
MAX_RETRY_DELAY_MS == 60 * 1000
WSS_POLL_INTERVAL_MS == 100
WSS_UPDATE_TIMEOUT_SECS == 3

\* The Miner account as the ledger holds it, with the fields that sit eight
\* bytes before those the program reads: checkpoint_fee before checkpoint_id,
\* the high half of rewards_factor before rewards_sol, rewards_sol before
\* rewards_ore, refined_ore before round_id.
MinerAccount(miner, checkpoint_fee, rewards_factor_hi, refined_ore) ==
    [ checkpoint_fee |-> checkpoint_fee,
      checkpoint_id |-> miner.checkpoint_id,
      rewards_factor_hi |-> rewards_factor_hi,
      rewards_sol |-> miner.rewards_sol,
      rewards_ore |-> miner.rewards_ore,
      refined_ore |-> refined_ore,
      round_id |-> miner.round_id ]

\* AccountNotification::parse_miner. The data of a notification is the
\* account's data, discriminator first; the Miner is read from its first
\* size_of::<Miner>() bytes, so every field is read eight bytes early.
parse_miner(notification) ==
    LET d == notification.data
    IN  IF d.fault = "no data"
        THEN Err([at |-> "No data in notification", attempt |-> 0])
        ELSE IF d.fault = "base64"
        THEN Err([at |-> "base64 decode", attempt |-> 0])
        ELSE IF d.fault = "short"
        THEN Err([at |-> "Invalid miner data length", attempt |-> 0])
        ELSE Ok(Miner(d.value.checkpoint_fee, d.value.refined_ore,
                      d.value.rewards_factor_hi, d.value.rewards_sol))

\* retry_delay_ms * 2 without the cap
next_retry_delay_uncapped(retry_delay_ms) == retry_delay_ms * 2

\* subscription.rs 190, 199, 254: (retry_delay_ms * 2).min(MAX_RETRY_DELAY_MS)
next_retry_delay(retry_delay_ms) == Min(retry_delay_ms * 2, MAX_RETRY_DELAY_MS)

\* the worker before MinerSubscription::new has spawned it, and as spawned
\* `logged` is the last line the message loop has logged
WssIdle == [pc |-> "none", retry_delay_ms |-> INITIAL_RETRY_DELAY_MS, keepalive |-> "none", logged |-> "none"]
wss_worker == [WssIdle EXCEPT !.pc = "connecting"]

\* subscription.rs 142-165: connected; the delay is reset, the keep-alive
\* task is spawned, the worker goes for the lock of the write half
connected(w) ==
    [w EXCEPT !.pc = "lock_write", !.retry_delay_ms = INITIAL_RETRY_DELAY_MS,
              !.keepalive = "tick"]

\* subscription.rs 247-249
connect_failed(w) == [w EXCEPT !.pc = "backoff"]

\* subscription.rs 185-192: the subscribe request could not be sent
subscribe_failed(w) == [w EXCEPT !.pc = "backoff", !.keepalive = "aborted"]

\* the worker returning when the stream is lost
connection_lost_returns(w) == [w EXCEPT !.pc = "returned", !.keepalive = "aborted"]

\* subscription.rs 230-245: Close, an error of the stream, or its end
connection_lost(w) == [w EXCEPT !.pc = "backoff", !.keepalive = "aborted"]

\* subscription.rs 253-254 (and 189-191): the sleep is over, the delay doubles
backoff_elapsed(w) ==
    [w EXCEPT !.pc = "connecting", !.retry_delay_ms = next_retry_delay(@)]

\* What read.next() can yield: an accountNotification with the account's data
\* (whole, or failing parse_miner), a text that is no notification, a
\* notification of another method, Ping, Pong, Binary, a raw Frame, Close, an
\* error, the end.
NoData == [fault |-> "no data", value |-> None]
StreamNotifications(accounts) ==
    { [kind |-> "accountNotification", data |-> [fault |-> "none", value |-> a]] :
        a \in accounts }
    \cup { [kind |-> "accountNotification", data |-> [NoData EXCEPT !.fault = f]] :
             f \in {"no data", "base64", "short"} }
StreamOther ==
    { [kind |-> k, data |-> NoData] :
        k \in {"text", "otherNotification", "ping", "pong", "binary", "frame"} }
StreamLost == { [kind |-> k, data |-> NoData] : k \in {"close", "error", "end"} }

\* the accounts the stream reports in the model
StreamAccounts ==
    { MinerAccount(Miner(FirstRound - 1, FirstRound, sol, 0), 0, hi, 0) :
        sol \in {0, 1}, hi \in {0, 2} }

programVars == <<stratVars, ledgerVars, execVars, orchVars, histVars>>

\* subscription.rs 141-144: connect_async returns a stream
WssConnectOk ==
    /\ wss.pc = "connecting"
    /\ wss' = connected(wss)
    /\ UNCHANGED <<programVars, miner_state, wait, held, sample>>

\* subscription.rs 247-249: connect_async fails
WssConnectErr ==
    /\ wss.pc = "connecting"
    /\ wss' = connect_failed(wss)
    /\ UNCHANGED <<programVars, miner_state, wait, held, sample>>

\* subscription.rs 183-184: the request is serialized (serde_json::to_string
\* of this struct cannot fail) and write.lock().await is granted
WssLockWrite ==
    /\ wss.pc = "lock_write"
    /\ Free(held, "write")
    /\ held' = lock(held, "worker", "write")
    /\ wss' = [wss EXCEPT !.pc = "subscribing"]
    /\ UNCHANGED <<programVars, miner_state, wait, sample>>

\* subscription.rs 185, 193-194: w.send(..).await returns Ok, drop(w)
WssSubscribeOk ==
    /\ wss.pc = "subscribing"
    /\ held' = drop(held, "worker", "write")
    /\ wss' = [wss EXCEPT !.pc = "streaming"]
    /\ UNCHANGED <<programVars, miner_state, wait, sample>>

\* subscription.rs 185-189: w.send(..).await returns Err, drop(w), abort
WssSubscribeErr ==
    /\ wss.pc = "subscribing"
    /\ held' = abort(drop(held, "worker", "write"), "keepalive")
    /\ wss' = subscribe_failed(wss)
    /\ UNCHANGED <<programVars, miner_state, wait, sample>>

\* the snapshot given up when parse_miner fails
snapshot_after_clears(msg, snapshot) ==
    LET r == parse_miner(msg)
    IN  IF r.ok THEN Some(Unwrap(r.val)) ELSE None

\* subscription.rs 208-221: the snapshot after an accountNotification
snapshot_after(msg, snapshot) ==
    LET r == parse_miner(msg)
    IN  IF r.ok THEN Some(Unwrap(r.val)) ELSE snapshot

\* subscription.rs 204-240: the line the message loop logs for msg, or the
\* last one it had logged when this message has no line: a notification of
\* another method (the `if` of line 208 has no else), Binary and Frame
\* (`_ => {}`), the end of the stream
logged_after(msg, logged) ==
    CASE msg.kind = "accountNotification" ->
             IF parse_miner(msg).ok THEN "update" ELSE "parse failed"
      [] msg.kind = "text" -> "message"
      [] msg.kind \in {"ping", "pong"} -> "ping/pong"
      [] msg.kind = "close" -> "closed"
      [] msg.kind = "error" -> "error"
      [] OTHER -> logged

\* subscription.rs 206-221: an accountNotification; the snapshot is written
\* when parse_miner succeeds, and the failure is logged when it does not
notified(accounts) ==
    /\ wss.pc = "streaming"
    /\ \E msg \in StreamNotifications(accounts) :
          /\ miner_state' = snapshot_after(msg, miner_state)
          /\ wss' = [wss EXCEPT !.logged = logged_after(msg, @)]
    /\ held' = scoped(held, "worker", "miner_state")
    /\ UNCHANGED <<programVars, wait, sample>>

WssNotification == notified(StreamAccounts)

\* subscription.rs 207-208, 222-229, 240: anything else that is not the loss
\* of the stream
WssIgnored ==
    /\ wss.pc = "streaming"
    /\ \E msg \in StreamOther : wss' = [wss EXCEPT !.logged = logged_after(msg, @)]
    /\ UNCHANGED <<programVars, miner_state, wait, held, sample>>

\* subscription.rs 230-245
WssLost ==
    /\ wss.pc = "streaming"
    /\ \E msg \in StreamLost :
          wss' = [connection_lost(wss) EXCEPT !.logged = logged_after(msg, @)]
    /\ held' = abort(held, "keepalive")
    /\ UNCHANGED <<programVars, miner_state, wait, sample>>

\* subscription.rs 253-255 (and 189-191): sleep(retry_delay_ms), the doubling,
\* the next pass of the loop
WssBackoff ==
    /\ wss.pc = "backoff"
    /\ wss' = backoff_elapsed(wss)
    /\ UNCHANGED <<programVars, miner_state, wait, held, sample>>

\* subscription.rs 157-158: the interval has ticked and write_clone.lock()
\* is granted
KeepaliveLock ==
    /\ wss.keepalive = "tick"
    /\ Free(held, "write")
    /\ held' = lock(held, "keepalive", "write")
    /\ wss' = [wss EXCEPT !.keepalive = "pinging"]
    /\ UNCHANGED <<programVars, miner_state, wait, sample>>

\* subscription.rs 159-164: the ping is sent; w goes at the end of the pass
KeepalivePingOk ==
    /\ wss.keepalive = "pinging"
    /\ held' = drop(held, "keepalive", "write")
    /\ wss' = [wss EXCEPT !.keepalive = "tick"]
    /\ UNCHANGED <<programVars, miner_state, wait, sample>>

\* subscription.rs 159-162: the ping fails; the task ends
KeepalivePingErr ==
    /\ wss.keepalive = "pinging"
    /\ held' = drop(held, "keepalive", "write")
    /\ wss' = [wss EXCEPT !.keepalive = "ended"]
    /\ UNCHANGED <<programVars, miner_state, wait, sample>>

\* MinerSubscription::wait_for_wss_update: the call and its locals;
\* elapsed_ms is start.elapsed()
WaitIdle == [pc |-> "idle", baseline |-> 0, timeout_ms |-> 0, elapsed_ms |-> 0, result |-> None]

wait_for_wss_update(baseline, timeout_ms) ==
    [WaitIdle EXCEPT !.pc = "check", !.baseline = baseline, !.timeout_ms = timeout_ms]

\* the loop condition and the body up to the sleep, with >= for >
WaitCheckAtLeast(w, snapshot) ==
    IF w.elapsed_ms < w.timeout_ms
    THEN IF IsSome(snapshot) /\ Unwrap(snapshot).rewards_sol >= w.baseline
         THEN [w EXCEPT !.pc = "returned", !.result = snapshot]
         ELSE [w EXCEPT !.pc = "sleep"]
    ELSE [w EXCEPT !.pc = "returned", !.result = None]

\* subscription.rs 111-116, 120: the loop condition, get_miner, the comparison
WaitCheck(w, snapshot) ==
    IF w.elapsed_ms < w.timeout_ms
    THEN IF IsSome(snapshot) /\ Unwrap(snapshot).rewards_sol > w.baseline
         THEN [w EXCEPT !.pc = "returned", !.result = snapshot]
         ELSE [w EXCEPT !.pc = "sleep"]
    ELSE [w EXCEPT !.pc = "returned", !.result = None]

\* subscription.rs 117: the sleep of one poll interval is over
WaitSleep(w) == [w EXCEPT !.pc = "check", !.elapsed_ms = @ + WSS_POLL_INTERVAL_MS]

\* one pass of the loop of the call, up to its sleep or its return; get_miner
\* takes the read lock for the clone
SyncWaitCheck ==
    /\ wait.pc = "check"
    /\ wait' = WaitCheck(wait, miner_state)
    /\ held' = scoped(held, "caller", "miner_state")
    /\ UNCHANGED <<programVars, wss, miner_state, sample>>

SyncWaitSleep ==
    /\ wait.pc = "sleep"
    /\ wait' = WaitSleep(wait)
    /\ UNCHANGED <<programVars, wss, miner_state, held, sample>>

\* the Synchronizer is not part of the behaviours of the other specifications
NoSynchronizer ==
    /\ wss = WssIdle
    /\ miner_state = None
    /\ wait = WaitIdle
    /\ held = {}

(***************************************************************************)
(* Round::rng and Round::winning_square on sample slot hashes              *)
(***************************************************************************)
SampleIdle == [pc |-> "none", slot_hash |-> UnsettledHash, rng |-> None, square |-> None]

NoSample == sample = SampleIdle

\* final_round.rng()
SampleRng ==
    /\ sample.pc = "hash"
    /\ sample' = [sample EXCEPT !.pc = "rng", !.rng = rng([slot_hash |-> sample.slot_hash])]
    /\ UNCHANGED <<programVars, syncVars, held>>

\* final_round.winning_square(rng)
SampleWinningSquare ==
    /\ sample.pc = "rng"
    /\ IsSome(sample.rng)
    /\ sample' = [sample EXCEPT !.pc = "square",
                                !.square = Some(winning_square(Unwrap(sample.rng)))]
    /\ UNCHANGED <<programVars, syncVars, held>>

(***************************************************************************)
(* The pure functions of the program on sample inputs                      *)
(***************************************************************************)
\* deserialize_account::<Board>(&data)
SampleDeserialize ==
    /\ sample.pc = "account_data"
    /\ sample' = [sample EXCEPT !.pc = "deserialized",
                                !.result = Some(deserialize_account_as(BoardLayout, sample.data))]
    /\ UNCHANGED <<programVars, syncVars, held>>

\* main.rs 246-254: select_blocks on a shuffle, the stake of the bet; the
\* blocks and the stake per block then go to execute_bet
SampleSelect ==
    /\ sample.pc = "select_args"
    /\ LET selected == take(sample.indices, sample.count)
       IN  sample' = [sample EXCEPT !.pc = "deploy_args",
                         !.selected = selected,
                         !.blocks = selected,
                         !.total_bet = bet_total(sample.amount, selected)]
    /\ UNCHANGED <<programVars, syncVars, held>>

\* execute_bet up to the instruction: the squares of the blocks, then
\* build_deploy_instruction
SampleBuildDeploy ==
    /\ sample.pc = "deploy_args"
    /\ sample' = [sample EXCEPT !.pc = "instruction",
                      !.result = Some(build_deploy_instruction(SignerPubkey, SignerPubkey,
                                          sample.amount, sample.round_id,
                                          SquaresOf(sample.blocks)))]
    /\ UNCHANGED <<programVars, syncVars, held>>

\* build_checkpoint_instruction
SampleBuildCheckpoint ==
    /\ sample.pc = "checkpoint_args"
    /\ sample' = [sample EXCEPT !.pc = "instruction",
                      !.result = Some(build_checkpoint_instruction(SignerPubkey, SignerPubkey,
                                                                   sample.round_id))]
    /\ UNCHANGED <<programVars, syncVars, held>>

\* build_claim_sol_instruction
SampleBuildClaim ==
    /\ sample.pc = "claim_args"
    /\ sample' = [sample EXCEPT !.pc = "instruction",
                                !.result = Some(build_claim_sol_instruction(SignerPubkey))]
    /\ UNCHANGED <<programVars, syncVars, held>>

\* is_round_active(&board) and is_round_complete(&board), get_slot answering
\* both with the same slot
SampleClassify ==
    /\ sample.pc = "board_slot"
    /\ sample' = [sample EXCEPT !.pc = "classified",
                                !.active = Some(RoundActive(sample.board, sample.slot)),
                                !.complete = Some(RoundComplete(sample.board, sample.slot))]
    /\ UNCHANGED <<programVars, syncVars, held>>

(***************************************************************************)
(* SpecExec: one call of the executor, with its retries                    *)
(***************************************************************************)
InitialMiners(r) ==
    {None} \cup { Some(Miner(cp, rid, 0, 0)) :
                    <<cp, rid>> \in { p \in {r - 2, r - 1, r} \X {r - 1, r} :
                                        p[1] <= p[2] } }

InitialBoard == [round_id |-> FirstRound, start_slot |-> 1, end_slot |-> 1 + RoundLen]

\* the rounds the ledger knows of, and the rng values it settles them with
LastRound == FirstRound + 1
Rounds == (FirstRound - 2)..LastRound
Rngs == { TOTAL_BLOCKS, TOTAL_BLOCKS + 1 }

InitialSlotHashes ==
    [r \in Rounds |-> IF r < FirstRound THEN SettledHash(TOTAL_BLOCKS + 1) ELSE UnsettledHash]

\* the balances get_balance can report, in lamports
Balances == {1, 2}

\* BotConfig around a MartingaleConfig; min_balance_sol is in half lamports
BotConfig(m) ==
    [ martingale |-> m,
      monitoring |-> [min_balance_sol |-> 5, auto_claim_sol_threshold |-> 2],
      discord |-> [stats_notification_interval |-> 2] ]

DefaultConfig ==
    BotConfig([ base_bet_amount |-> 2, multiplier |-> [num |-> 2, den |-> 1],
                max_consecutive_losses |-> 2, warn_consecutive_losses |-> 1,
                blocks_per_bet |-> 1 ])

\* the main task is not part of the behaviours of SpecStrategy and SpecExec
NoMainTask ==
    /\ mainpc = "none"
    /\ round = RoundIdle
    /\ tasks = <<>>
    /\ last_notice = "none"
    /\ limit_reached = FALSE
    /\ state_at_entry = state
    /\ at_prepare = None
    /\ low_balance = FALSE
    /\ bets = <<>>
    /\ stats_sent = <<>>

ExecCalls ==
    { send_transaction_with_retry("execute_bet",
          execute_bet(SignerPubkey, r, blocks, bet)) :
        r \in {FirstRound}, blocks \in BlockChoices, bet \in {1, 2} }
    \cup
    { send_transaction_with_retry("execute_checkpoint_and_bet",
          execute_checkpoint_and_bet(SignerPubkey, mr, FirstRound, blocks, 1)) :
        mr \in {FirstRound - 2, FirstRound - 1}, blocks \in BlockChoices }
    \cup
    { send_transaction_with_retry("execute_claim_sol",
          execute_claim_sol(SignerPubkey)) }

InitExec ==
    /\ config = DefaultConfig
    /\ state = new(base_bet_lamports(config.martingale))
    /\ last_call = Call("new", TRUE, FALSE, 0)
    /\ streak = 0
    /\ slot = 1
    /\ board = InitialBoard
    /\ ledger_miner \in InitialMiners(FirstRound)
    /\ slot_hashes = InitialSlotHashes
    /\ exec \in ExecCalls
    /\ last_tx = None
    /\ NoMainTask
    /\ NoSynchronizer
    /\ NoSample

NextExec ==
    \/ ExecGetBlockhashOk
    \/ ExecGetBlockhashErr
    \/ ExecSign
    \/ ExecSendConfirmed
    \/ ExecSendRejected
    \/ ExecSendLost
    \/ ExecBackoff
    \/ Tick

SpecExec == InitExec /\ [][NextExec]_vars

(***************************************************************************)
(* SpecStrategy: a MartingaleState under any sequence of its operations    *)
(***************************************************************************)

MartingaleConfigs ==
    { cfg \in [ base_bet_amount         : 2..MaxBaseAmount,
                multiplier              : Multipliers,
                max_consecutive_losses  : 0..MaxCap,
                warn_consecutive_losses : 0..MaxCap,
                blocks_per_bet          : {1, 2} ] : ConfigValid(cfg) }

InitStrategy ==
    /\ config \in { BotConfig(m) : m \in MartingaleConfigs }
    /\ slot = 1
    /\ board = InitialBoard
    /\ ledger_miner = None
    /\ slot_hashes = InitialSlotHashes
    /\ exec = ExecIdle
    /\ last_tx = None
    /\ state = new(base_bet_lamports(config.martingale))
    /\ last_call = Call("new", TRUE, FALSE, 0)
    /\ streak = 0
    /\ NoMainTask
    /\ NoSynchronizer
    /\ NoSample

StratRecordBet ==
    /\ state.total_bet_lamports < MaxTotalBet
    /\ state' = record_bet(state, state.current_bet_per_block
                                      * config.martingale.blocks_per_bet)
    /\ last_call' = Call("record_bet", TRUE, FALSE, streak)
    /\ UNCHANGED <<config, streak, ledgerVars, execVars,
                   orchVars, histVars, syncVars, held, sample>>

StratOnLoss ==
    /\ Played(state) < MaxPlayed
    /\ LET r == on_loss(state, config.martingale)
       IN  /\ state' = r.state
           /\ last_call' = Call("on_loss", r.should_continue, r.should_warn,
                                streak + 1)
           /\ streak' = IF r.should_continue THEN streak + 1 ELSE 0
    /\ UNCHANGED <<config, ledgerVars, execVars, orchVars, histVars, syncVars, held, sample>>

StratResetAfterWin ==
    /\ Played(state) < MaxPlayed
    /\ state' = reset_after_win(state, config.martingale, Played(state) + 1)
    /\ last_call' = Call("reset_after_win", TRUE, FALSE, 0)
    /\ streak' = 0
    /\ UNCHANGED <<config, ledgerVars, execVars, orchVars, histVars, syncVars, held, sample>>

StratUpdateEarnings ==
    /\ state.total_earned_sol < MaxEarned
    /\ \E r \in {<<1, 2>>} :
          state' = update_earnings(state, r[1], r[2])
    /\ last_call' = Call("update_earnings", TRUE, FALSE, streak)
    /\ UNCHANGED <<config, streak, ledgerVars, execVars,
                   orchVars, histVars, syncVars, held, sample>>

\* MartingaleState::reset called by itself: it is public, though on_loss is
\* its one caller in the program
StratReset ==
    /\ state' = reset(state, config.martingale)
    /\ last_call' = Call("reset", TRUE, FALSE, 0)
    /\ streak' = 0
    /\ UNCHANGED <<config, ledgerVars, execVars, orchVars, histVars, syncVars, held, sample>>

NextStrategy ==
    \/ StratRecordBet
    \/ StratOnLoss
    \/ StratResetAfterWin
    \/ StratUpdateEarnings
    \/ StratReset

SpecStrategy == InitStrategy /\ [][NextStrategy]_vars

(***************************************************************************)
(* main.rs: main() and run_betting_round, one action per await             *)
(***************************************************************************)

\* run_betting_round is called: lines 108-117
EnterRound ==
    /\ mainpc' = "get_board"
    /\ round' = RoundIdle
    /\ state_at_entry' = state

\* main.rs 57-66: the balance check at start-up
MainCheckBalance ==
    /\ mainpc = "start"
    /\ \E bal \in Balances : \E rpc \in RpcValue(bal) :
          /\ mainpc' = IF rpc.ok /\ ~BalanceTooLow(Unwrap(rpc.val), config.monitoring)
                       THEN "init_miner" ELSE "failed"
          /\ low_balance' = (rpc.ok /\ bal < min_balance_lamports(config.monitoring))
    /\ UNCHANGED <<stratVars, ledgerVars, execVars, round, tasks, last_notice,
                   limit_reached, state_at_entry, at_prepare, bets, stats_sent, syncVars, held, sample>>

\* main.rs 87-108: the Miner is read for the log, MinerSubscription::new spawns
\* the connection worker, the loop is entered
MainInitMiner ==
    /\ mainpc = "init_miner"
    /\ \E rpc \in RpcReadMiner(ledger_miner) :
          IF get_miner(rpc).ok
          THEN EnterRound /\ wss' = wss_worker
          ELSE mainpc' = "failed" /\ UNCHANGED <<round, state_at_entry, wss>>
    /\ UNCHANGED <<stratVars, ledgerVars, execVars, tasks, last_notice,
                   limit_reached, at_prepare, low_balance, bets, stats_sent, miner_state, wait, held, sample>>

\* main.rs 205-217: the Board is read and current_round follows it
RoundGetBoard ==
    /\ mainpc = "get_board"
    /\ \E rpc \in RpcRead(board) :
          LET r == get_account(rpc)
          IN  IF r.ok
              THEN /\ round' = [round EXCEPT !.board = Unwrap(r.val),
                                             !.round_id = Unwrap(r.val).round_id]
                   /\ state' = [state EXCEPT !.current_round = Unwrap(r.val).round_id]
                   /\ mainpc' = "is_active"
              ELSE /\ round' = Return(Fails("get_board"))
                   /\ state' = state
                   /\ mainpc' = "after_round"
    /\ held' = scoped(held, "main", "martingale_state")
    /\ UNCHANGED <<config, last_call, streak, ledgerVars, execVars,
                   tasks, last_notice, histVars, syncVars, sample>>

\* main.rs 220: is_round_active(&board) reads the slot
RoundIsActive ==
    /\ mainpc = "is_active"
    /\ \E rpc \in RpcValue(slot) :
          IF ~rpc.ok
          THEN round' = Return(Fails("get_slot")) /\ mainpc' = "after_round"
          ELSE /\ round' = round
               /\ mainpc' = IF RoundActive(round.board, Unwrap(rpc.val))
                            THEN "get_round" ELSE "inactive"
    /\ UNCHANGED <<stratVars, ledgerVars, execVars, tasks,
                   last_notice, histVars, syncVars, held, sample>>

\* main.rs 221-230: the round is not active; the slot is read for the log
RoundInactive ==
    /\ mainpc = "inactive"
    /\ \E rpc \in RpcValue(slot) :
          round' = Return(IF rpc.ok THEN Some(Ok(TRUE)) ELSE Fails("get_slot"))
    /\ mainpc' = "after_round"
    /\ UNCHANGED <<stratVars, ledgerVars, execVars, tasks,
                   last_notice, histVars, syncVars, held, sample>>

\* main.rs 234
RoundGetRound ==
    /\ mainpc = "get_round"
    /\ \E rpc \in RpcRead(RoundAccount(round.round_id)) :
          IF get_account(rpc).ok
          THEN round' = round /\ mainpc' = "rewards_before"
          ELSE round' = Return(Fails("get_round")) /\ mainpc' = "after_round"
    /\ UNCHANGED <<stratVars, ledgerVars, execVars, tasks,
                   last_notice, histVars, syncVars, held, sample>>

\* main.rs 237-271: rewards before the bet, the blocks, the stake, notify_bet
RoundRewardsBefore ==
    /\ mainpc = "rewards_before"
    /\ state.total_bet_lamports < MaxStaked
    /\ \E rpc \in RpcReadMiner(ledger_miner) :
       \E blocks \in { b \in BlockChoices : b \in select_blocks(config.martingale.blocks_per_bet) } :
          LET r == get_miner(rpc)
              miner == Unwrap(r.val)
          IN  IF r.ok
              THEN /\ round' = [round EXCEPT
                          !.rewards_sol_before =
                              IF IsSome(miner) THEN Unwrap(miner).rewards_sol ELSE 0,
                          !.rewards_ore_before =
                              IF IsSome(miner) THEN Unwrap(miner).rewards_ore ELSE 0,
                          !.blocks = blocks,
                          !.bet_per_block = state.current_bet_per_block,
                          !.total_bet = bet_total(state.current_bet_per_block, blocks)]
                   /\ last_notice' = "bet"
                   /\ mainpc' = "prepare"
              ELSE /\ round' = Return(Fails("get_miner"))
                   /\ last_notice' = last_notice
                   /\ mainpc' = "after_round"
    /\ held' = scoped(held, "main", "martingale_state")
    /\ UNCHANGED <<stratVars, ledgerVars, execVars, tasks, histVars, syncVars, sample>>

\* main.rs 274-326: the Miner is read again and the bet goes to the executor
RoundPrepareBet ==
    /\ mainpc = "prepare"
    /\ at_prepare' = ledger_miner
    /\ \E rpc \in RpcReadMiner(ledger_miner) :
          LET r == get_miner(rpc)
          IN  IF r.ok
              THEN /\ exec' = PlaceBet(Unwrap(r.val), round.round_id, round.blocks,
                                       round.bet_per_block)
                   /\ round' = round
                   /\ mainpc' = "bet"
              ELSE /\ exec' = exec
                   /\ round' = Return(Fails("get_miner"))
                   /\ mainpc' = "after_round"
    /\ UNCHANGED <<stratVars, ledgerVars, last_tx, tasks, last_notice,
                   limit_reached, state_at_entry, low_balance, bets, stats_sent, syncVars, held, sample>>

\* main.rs 285-293, 300-308, 316-324: the executor has returned
RoundBetReturned ==
    /\ mainpc = "bet"
    /\ exec.pc = "returned"
    /\ LET res == Unwrap(exec.result)
       IN  /\ state' = BetOutcome(state, res, round.total_bet)
           /\ last_call' = IF state' = state THEN last_call
                           ELSE Call("record_bet", TRUE, FALSE, streak)
           /\ IF res.ok
              THEN round' = round /\ mainpc' = "settle_sleep"
              ELSE round' = Return(Some(Err(Unwrap(res.err)))) /\ mainpc' = "after_round"
           /\ bets' = IF res.ok THEN Append(bets, round.round_id) ELSE bets
    /\ exec' = ExecIdle
    /\ last_tx' = None
    /\ at_prepare' = None
    /\ held' = scoped(held, "main", "martingale_state")
    /\ UNCHANGED <<config, streak, ledgerVars, tasks, last_notice,
                   limit_reached, state_at_entry, low_balance, stats_sent, syncVars, sample>>

\* main.rs 331, 337: start_time.elapsed() after one more pass of the loop,
\* in seconds
elapsed_restarts(before, pass) == pass

elapsed(before, pass) == before + pass

\* the seconds a Board poll of the settlement loop can take
PollLatencies == {0, ROUND_COMPLETION_POLL_INTERVAL_SECS}

\* main.rs 334-340: sleep, then the timeout check. A pass takes the poll
\* interval and the time the previous poll took.
SettleSleep ==
    /\ mainpc = "settle_sleep"
    /\ \E latency \in PollLatencies :
          LET e == elapsed(round.elapsed, ROUND_COMPLETION_POLL_INTERVAL_SECS + latency)
          IN  IF e > ROUND_COMPLETION_TIMEOUT_SECS
              THEN /\ round' = Return(Fails("Round completion timeout"))
                   /\ mainpc' = "after_round"
              ELSE /\ round' = [round EXCEPT !.elapsed = e]
                   /\ mainpc' = "settle_board"
    /\ UNCHANGED <<stratVars, ledgerVars, execVars, tasks,
                   last_notice, histVars, syncVars, held, sample>>

\* main.rs 343-353: the Board is polled; an error goes round the loop
SettleGetBoard ==
    /\ mainpc = "settle_board"
    /\ \E rpc \in RpcRead(board) :
          LET r == get_account(rpc)
          IN  IF r.ok
              THEN /\ round' = [round EXCEPT !.board_check = Unwrap(r.val)]
                   /\ mainpc' = "settle_slot"
              ELSE /\ round' = round
                   /\ mainpc' = "settle_sleep"
    /\ UNCHANGED <<stratVars, ledgerVars, execVars, tasks,
                   last_notice, histVars, syncVars, held, sample>>

\* main.rs 345-348: is_round_complete(&board_check).await.unwrap_or(false)
SettleIsComplete ==
    /\ mainpc = "settle_slot"
    /\ \E rpc \in RpcValue(slot) :
          LET complete == IF rpc.ok THEN RoundComplete(round.board_check, Unwrap(rpc.val))
                          ELSE FALSE
          IN  mainpc' = IF complete THEN "final_round" ELSE "settle_sleep"
    /\ round' = [round EXCEPT !.board_check = RoundIdle.board_check]
    /\ UNCHANGED <<stratVars, ledgerVars, execVars, tasks,
                   last_notice, histVars, syncVars, held, sample>>

\* main.rs 359-360
RoundFinal ==
    /\ mainpc = "final_round"
    /\ \E rpc \in RpcRead(RoundAccount(round.round_id)) :
          LET r == get_account(rpc)
          IN  IF r.ok
              THEN /\ round' = [round EXCEPT !.final_round = Some(Unwrap(r.val)),
                                             !.rng_attempts = 0]
                   /\ mainpc' = "rng_check"
              ELSE /\ round' = Return(Fails("final get_round"))
                   /\ mainpc' = "after_round"
    /\ UNCHANGED <<stratVars, ledgerVars, execVars, tasks,
                   last_notice, histVars, syncVars, held, sample>>

\* main.rs 363: the condition of the rng retry loop
RngMissing ==
    /\ ~IsSome(rng(Unwrap(round.final_round)))
    /\ round.rng_attempts < MAX_RNG_ATTEMPTS

\* main.rs 363-368: one pass of the rng retry loop
RoundRngRetry ==
    /\ mainpc = "rng_check"
    /\ RngMissing
    /\ \E rpc \in RpcRead(RoundAccount(round.round_id)) :
          LET r == get_account(rpc)
          IN  IF r.ok
              THEN /\ round' = [round EXCEPT !.final_round = Some(Unwrap(r.val)),
                                             !.rng_attempts = @ + 1]
                   /\ mainpc' = "rng_check"
              ELSE /\ round' = Return(Fails("final get_round"))
                   /\ mainpc' = "after_round"
    /\ UNCHANGED <<stratVars, ledgerVars, execVars, tasks,
                   last_notice, histVars, syncVars, held, sample>>

\* main.rs 376: block_indices.contains(&(winning_square as u8))
Won ==
    LET r == Unwrap(rng(Unwrap(round.final_round)))
    IN  winning_square(r) \in block_indices(round.blocks)

\* main.rs 391-410: what the reward task captures when it is spawned, and its
\* locals
RewardTask(round_id, square, rewards_sol_before, rewards_ore_before, cycle_bet_total, bet_per_block) ==
    [ round_id |-> round_id,
      winning_square |-> square,
      rewards_sol_before |-> rewards_sol_before,
      rewards_ore_before |-> rewards_ore_before,
      cycle_bet_total |-> cycle_bet_total,
      bet_per_block |-> bet_per_block,
      pc |-> "wss_wait",
      rewards_sol_after |-> 0,
      rewards_ore_after |-> 0,
      retry_count |-> 0,
      accumulated_rewards |-> None,
      attempt |-> 0,
      recent_blockhash |-> None,
      total_rounds |-> 0,
      wait |-> wait_for_wss_update(rewards_sol_before, WSS_UPDATE_TIMEOUT_SECS * 1000) ]

\* main.rs 378-570: a win resets the strategy and spawns the reward task
RoundWon ==
    /\ mainpc = "rng_check"
    /\ ~RngMissing
    /\ IsSome(rng(Unwrap(round.final_round)))
    /\ Won
    /\ state' = reset_after_win(state, config.martingale, Played(state) + 1)
    /\ last_call' = Call("reset_after_win", TRUE, FALSE, 0)
    /\ streak' = 0
    /\ tasks' = Append(tasks,
          RewardTask(round.round_id,
                     winning_square(Unwrap(rng(Unwrap(round.final_round)))),
                     round.rewards_sol_before, round.rewards_ore_before,
                     state.current_cycle_bet_lamports, round.bet_per_block))
    /\ round' = Return(Some(Ok(TRUE)))
    /\ mainpc' = "after_round"
    /\ held' = scoped(held, "main", "martingale_state")
    /\ UNCHANGED <<config, ledgerVars, execVars, last_notice, histVars, syncVars, sample>>

\* main.rs 618: total_rounds % stats_interval == 0 && total_rounds > 0
StatsDue(s) ==
    /\ Played(s) % config.discord.stats_notification_interval = 0
    /\ Played(s) > 0

\* main.rs 551-563, 618-629: notify_stats(total_rounds, ..), called with the
\* counters read under the lock when they were at a multiple of the interval
notify_stats(total_rounds) == Append(stats_sent, total_rounds)

\* main.rs 571-582: a loss goes to on_loss, whose pair is kept for the rest
\* of the path; the streak and the stake for the notices are read next
RoundLost ==
    /\ mainpc = "rng_check"
    /\ ~RngMissing
    /\ IsSome(rng(Unwrap(round.final_round)))
    /\ ~Won
    /\ LET r == on_loss(state, config.martingale)
       IN  /\ state' = r.state
           /\ last_call' = Call("on_loss", r.should_continue, r.should_warn, streak + 1)
           /\ streak' = IF r.should_continue THEN streak + 1 ELSE 0
           /\ limit_reached' = (limit_reached \/ ~r.should_continue)
           /\ round' = [round EXCEPT !.should_continue = r.should_continue,
                                     !.should_warn = r.should_warn]
    /\ mainpc' = "notify_loss"
    /\ held' = scoped(held, "main", "martingale_state")
    /\ UNCHANGED <<config, ledgerVars, execVars, tasks, last_notice, state_at_entry,
                   at_prepare, low_balance, bets, stats_sent, syncVars, sample>>

\* main.rs 584-591: discord.notify_loss(..).await has returned
RoundLossNotified ==
    /\ mainpc = "notify_loss"
    /\ last_notice' = "loss"
    /\ mainpc' = IF round.should_warn THEN "notify_warning" ELSE "loss_stats"
    /\ UNCHANGED <<stratVars, ledgerVars, execVars, round, tasks,
                   histVars, syncVars, held, sample>>

\* main.rs 593-601: should_warn, and discord.notify_warning(..).await has
\* returned
RoundLossWarned ==
    /\ mainpc = "notify_warning"
    /\ last_notice' = "warning"
    /\ mainpc' = "loss_stats"
    /\ UNCHANGED <<stratVars, ledgerVars, execVars, round, tasks,
                   histVars, syncVars, held, sample>>

\* main.rs 630-634: the end of the loss path, Ok(false) at the cap
loss_returns(r) == Return(Some(Ok(r.should_continue)))

\* main.rs 603-618: the counters are read under the lock; at a multiple of
\* the interval the path goes on to notify_stats, and else it returns
RoundLossCounters ==
    /\ mainpc = "loss_stats"
    /\ IF StatsDue(state)
       THEN /\ round' = [round EXCEPT !.total_rounds = Played(state)]
            /\ mainpc' = "notify_stats"
       ELSE /\ round' = loss_returns(round)
            /\ mainpc' = "after_round"
    /\ held' = scoped(held, "main", "martingale_state")
    /\ UNCHANGED <<stratVars, ledgerVars, execVars, tasks, last_notice,
                   histVars, syncVars, sample>>

\* main.rs 619-634: discord.notify_stats(..).await has returned, and the
\* round returns
RoundLossStats ==
    /\ mainpc = "notify_stats"
    /\ last_notice' = "stats"
    /\ stats_sent' = notify_stats(round.total_rounds)
    /\ round' = loss_returns(round)
    /\ mainpc' = "after_round"
    /\ UNCHANGED <<stratVars, ledgerVars, execVars, tasks, limit_reached, state_at_entry,
                   at_prepare, low_balance, bets, syncVars, held, sample>>

\* main.rs 635-639: no rng after every retry
RoundNoRng ==
    /\ mainpc = "rng_check"
    /\ ~RngMissing
    /\ ~IsSome(rng(Unwrap(round.final_round)))
    /\ round' = Return(Some(Ok(TRUE)))
    /\ mainpc' = "after_round"
    /\ UNCHANGED <<stratVars, ledgerVars, execVars, tasks,
                   last_notice, histVars, syncVars, held, sample>>

(***************************************************************************)
(* main.rs 405-570: the reward task spawned on a win                       *)
(***************************************************************************)
MAX_REWARDS_RETRIES == 10

\* MonitoringConfig::auto_claim_sol_threshold_lamports, the threshold held
\* in half lamports
auto_claim_sol_threshold_lamports(monitoring) == sol_to_lamports(monitoring.auto_claim_sol_threshold)

\* u64::saturating_sub
saturating_sub(a, b) == IF a > b THEN a - b ELSE 0

\* `if let Ok(Some(miner)) = get_miner(..).await { (miner.rewards_sol,
\* miner.rewards_ore) } else { (0, 0) }`, and its use in the retry loop, where
\* a failed read keeps the values
RewardsRead(r, otherwise) ==
    IF r.ok /\ IsSome(Unwrap(r.val))
    THEN [sol |-> Unwrap(Unwrap(r.val)).rewards_sol, ore |-> Unwrap(Unwrap(r.val)).rewards_ore]
    ELSE otherwise

\* main.rs 436: the condition of the retry loop
RewardsPending(t) ==
    /\ t.rewards_sol_after <= t.rewards_sol_before
    /\ t.retry_count < MAX_REWARDS_RETRIES

\* main.rs 406-415, subscription.rs 111-116, 120: one pass of the loop of
\* wait_for_wss_update in the task, up to its sleep or its return. A
\* snapshot past the rewards of before the bet is taken for the rewards of
\* after; at the timeout the task goes to the read by RPC.
TaskWssCheck(i) ==
    /\ LET t == tasks[i]
           w == WaitCheck(t.wait, miner_state)
       IN  /\ t.pc = "wss_wait"
           /\ t.wait.pc = "check"
           /\ tasks' = [tasks EXCEPT ![i] =
                 IF w.pc # "returned" THEN [t EXCEPT !.wait = w]
                 ELSE IF IsSome(w.result)
                 THEN [t EXCEPT !.pc = "retry", !.wait = WaitIdle,
                                !.rewards_sol_after = Unwrap(w.result).rewards_sol,
                                !.rewards_ore_after = Unwrap(w.result).rewards_ore]
                 ELSE [t EXCEPT !.pc = "rpc_fallback", !.wait = WaitIdle]]
           /\ held' = scoped(held, <<"task", i>>, "miner_state")
    /\ UNCHANGED <<stratVars, ledgerVars, execVars, mainpc, round, last_notice,
                   histVars, syncVars, sample>>

\* subscription.rs 117: the sleep of one poll interval is over
TaskWssSleep(i) ==
    /\ tasks[i].pc = "wss_wait"
    /\ tasks[i].wait.pc = "sleep"
    /\ tasks' = [tasks EXCEPT ![i] = [@ EXCEPT !.wait = WaitSleep(@)]]
    /\ UNCHANGED <<stratVars, ledgerVars, execVars, mainpc, round, last_notice,
                   histVars, syncVars, held, sample>>

\* main.rs 416-428: no update came in time; the Miner is read by RPC
TaskRpcFallback(i) ==
    /\ \E rpc \in RpcReadMiner(ledger_miner) :
          LET t == tasks[i]
              m == RewardsRead(get_miner(rpc), [sol |-> 0, ore |-> 0])
          IN  /\ t.pc = "rpc_fallback"
              /\ tasks' = [tasks EXCEPT ![i] =
                    [t EXCEPT !.pc = "retry", !.rewards_sol_after = m.sol,
                              !.rewards_ore_after = m.ore]]
    /\ UNCHANGED <<stratVars, ledgerVars, execVars, mainpc, round, last_notice,
                   histVars, syncVars, held, sample>>

\* main.rs 436-458: one pass of the retry loop: the sleep, then the read
TaskRetry(i) ==
    /\ \E rpc \in RpcReadMiner(ledger_miner) :
          LET t == tasks[i]
              m == RewardsRead(get_miner(rpc),
                               [sol |-> t.rewards_sol_after, ore |-> t.rewards_ore_after])
          IN  /\ t.pc = "retry"
              /\ RewardsPending(t)
              /\ tasks' = [tasks EXCEPT ![i] =
                    [t EXCEPT !.retry_count = @ + 1, !.rewards_sol_after = m.sol,
                              !.rewards_ore_after = m.ore]]
    /\ UNCHANGED <<stratVars, ledgerVars, execVars, mainpc, round, last_notice,
                   histVars, syncVars, held, sample>>

\* the claim is made whatever the accumulated rewards are
ClaimDueAlways(accumulated_rewards, monitoring) == TRUE

\* main.rs 482-483: accumulated_rewards >= claim_threshold_lamports
ClaimDue(accumulated_rewards, monitoring) ==
    accumulated_rewards >= auto_claim_sol_threshold_lamports(monitoring)

\* main.rs 475-494: the accumulated rewards are read, 0 when the read gives
\* no Miner, and held against the auto-claim threshold; at or above it the
\* key is loaded (load_keypair has decoded the same string for main) and
\* execute_claim_sol is entered
TaskAccumulated(i) ==
    /\ \E rpc \in RpcReadMiner(ledger_miner) :
          LET t == tasks[i]
              accumulated_rewards == RewardsRead(get_miner(rpc), [sol |-> 0, ore |-> 0]).sol
          IN  /\ max_retries >= 1
              /\ t.pc = "retry"
              /\ ~RewardsPending(t)
              /\ tasks' = [tasks EXCEPT ![i] =
                    IF ClaimDue(accumulated_rewards, config.monitoring)
                    THEN [t EXCEPT !.pc = "claim", !.attempt = 1,
                                   !.accumulated_rewards = Some(accumulated_rewards)]
                    ELSE [t EXCEPT !.pc = "earnings",
                                   !.accumulated_rewards = Some(accumulated_rewards)]]
    /\ UNCHANGED <<stratVars, ledgerVars, execVars, mainpc, round, last_notice,
                   histVars, syncVars, held, sample>>

\* main.rs 515: the block of the claim is left, and its locals with it
ClaimReturned(t) ==
    [t EXCEPT !.pc = "earnings", !.accumulated_rewards = None, !.attempt = 0,
              !.recent_blockhash = None]

\* executor.rs 125-135: an attempt of send_transaction_with_retry_keypair has
\* failed; the task sleeps the backoff when attempts remain, and after the
\* last one the error is returned to main.rs 508, which goes to notify_error
ClaimAttemptFailed(t) ==
    IF t.attempt < max_retries
    THEN [t EXCEPT !.pc = "claim_backoff", !.recent_blockhash = None]
    ELSE [t EXCEPT !.pc = "claim_error", !.recent_blockhash = None]

\* the transaction of the claim as send_transaction_keypair has signed it
ClaimTransaction(t) ==
    [ instructions |-> execute_claim_sol(SignerPubkey),
      recent_blockhash |-> Unwrap(t.recent_blockhash) ]

\* executor.rs 149-153: get_latest_blockhash().await returns the blockhash;
\* the transaction is built and signed with it
TaskClaimBlockhashOk(i) ==
    /\ tasks[i].pc = "claim"
    /\ tasks' = [tasks EXCEPT ![i] = [@ EXCEPT !.pc = "claim_send",
                                               !.recent_blockhash = Some(slot)]]
    /\ UNCHANGED <<stratVars, ledgerVars, execVars, mainpc, round, last_notice,
                   histVars, syncVars, held, sample>>

\* executor.rs 149: get_latest_blockhash().await? fails, and the attempt
\* with it
TaskClaimBlockhashErr(i) ==
    /\ tasks[i].pc = "claim"
    /\ tasks' = [tasks EXCEPT ![i] = ClaimAttemptFailed(@)]
    /\ UNCHANGED <<stratVars, ledgerVars, execVars, mainpc, round, last_notice,
                   histVars, syncVars, held, sample>>

\* executor.rs 156-160, 121-124: send_and_confirm_transaction().await returns
\* the signature: the ledger has run the claim, and execute_claim_sol
\* returns Ok
TaskClaimConfirmed(i) ==
    /\ tasks[i].pc = "claim_send"
    /\ LET l == LedgerProcess(ClaimTransaction(tasks[i]))
       IN  /\ l.ok
           /\ ledger_miner' = l.miner
    /\ tasks' = [tasks EXCEPT ![i] = [@ EXCEPT !.pc = "claim_balance",
                                               !.recent_blockhash = None]]
    /\ UNCHANGED <<stratVars, slot, board, slot_hashes, execVars, mainpc, round,
                   last_notice, histVars, syncVars, held, sample>>

\* the attempt fails before the ledger has run the claim
TaskClaimRejected(i) ==
    /\ tasks[i].pc = "claim_send"
    /\ tasks' = [tasks EXCEPT ![i] = ClaimAttemptFailed(@)]
    /\ UNCHANGED <<stratVars, ledgerVars, execVars, mainpc, round, last_notice,
                   histVars, syncVars, held, sample>>

\* the ledger runs the claim, but its confirmation does not reach the task
TaskClaimLost(i) ==
    /\ tasks[i].pc = "claim_send"
    /\ LET l == LedgerProcess(ClaimTransaction(tasks[i]))
       IN  /\ l.ok
           /\ ledger_miner' = l.miner
    /\ tasks' = [tasks EXCEPT ![i] = ClaimAttemptFailed(@)]
    /\ UNCHANGED <<stratVars, slot, board, slot_hashes, execVars, mainpc, round,
                   last_notice, histVars, syncVars, held, sample>>

\* executor.rs 129-134: the backoff sleep is over; the next attempt
TaskClaimBackoff(i) ==
    /\ tasks[i].pc = "claim_backoff"
    /\ tasks' = [tasks EXCEPT ![i] = [@ EXCEPT !.pc = "claim", !.attempt = @ + 1]]
    /\ UNCHANGED <<stratVars, ledgerVars, execVars, mainpc, round, last_notice,
                   histVars, syncVars, held, sample>>

\* main.rs 503: get_balance(..).await.unwrap_or(0) has returned
TaskClaimBalance(i) ==
    /\ tasks[i].pc = "claim_balance"
    /\ tasks' = [tasks EXCEPT ![i] = [@ EXCEPT !.pc = "claim_notify"]]
    /\ UNCHANGED <<stratVars, ledgerVars, execVars, mainpc, round, last_notice,
                   histVars, syncVars, held, sample>>

\* main.rs 505-507: notify_claim_sol(..).await has returned
TaskClaimNotified(i) ==
    /\ tasks[i].pc = "claim_notify"
    /\ tasks' = [tasks EXCEPT ![i] = ClaimReturned(@)]
    /\ last_notice' = "claim"
    /\ UNCHANGED <<stratVars, ledgerVars, execVars, mainpc, round,
                   histVars, syncVars, held, sample>>

\* main.rs 509-513: notify_error(..).await has returned
TaskClaimError(i) ==
    /\ tasks[i].pc = "claim_error"
    /\ tasks' = [tasks EXCEPT ![i] = ClaimReturned(@)]
    /\ last_notice' = "error"
    /\ UNCHANGED <<stratVars, ledgerVars, execVars, mainpc, round,
                   histVars, syncVars, held, sample>>

\* update_earnings that also writes the round of the win back
update_earnings_resets(s, ore_reward, sol_reward) ==
    [s EXCEPT !.total_earned_ore = @ + ore_reward,
              !.total_earned_sol = @ + sol_reward,
              !.current_round = 0,
              !.consecutive_losses = 0]

\* main.rs 531: what the task does to MartingaleState
TaskUpdate(s, ore_earned_actual, sol_earned_actual) ==
    update_earnings(s, ore_earned_actual, sol_earned_actual)

\* main.rs 531: update_earnings under the lock; notify_win is called next
TaskEarnings(i) ==
    /\ LET t == tasks[i]
       IN  /\ t.pc = "earnings"
           /\ state' = TaskUpdate(state,
                           saturating_sub(t.rewards_ore_after, t.rewards_ore_before),
                           saturating_sub(t.rewards_sol_after, t.rewards_sol_before))
           /\ tasks' = [tasks EXCEPT ![i] =
                 [t EXCEPT !.pc = "notify_win", !.accumulated_rewards = None]]
           /\ held' = scoped(held, <<"task", i>>, "martingale_state")
    /\ last_call' = Call("update_earnings", TRUE, FALSE, streak)
    /\ UNCHANGED <<config, streak, ledgerVars, execVars, mainpc, round, last_notice,
                   histVars, syncVars, sample>>

\* main.rs 533-541: notify_win(..).await has returned
TaskWinNotified(i) ==
    /\ tasks[i].pc = "notify_win"
    /\ tasks' = [tasks EXCEPT ![i] = [@ EXCEPT !.pc = "stats"]]
    /\ last_notice' = "win"
    /\ UNCHANGED <<stratVars, ledgerVars, execVars, mainpc, round,
                   histVars, syncVars, held, sample>>

\* main.rs 570: the task is over and what it held is dropped
TaskFinished ==
    [RewardTask(0, 0, 0, 0, 0, 0) EXCEPT !.pc = "done", !.wait = WaitIdle]

\* main.rs 544-558: the counters are read under the lock; at a multiple of
\* the interval the task goes on to notify_stats, and else it is over
TaskStats(i) ==
    /\ LET t == tasks[i]
       IN  /\ t.pc = "stats"
           /\ tasks' = [tasks EXCEPT ![i] =
                 IF StatsDue(state)
                 THEN [TaskFinished EXCEPT !.pc = "notify_stats",
                                           !.total_rounds = Played(state)]
                 ELSE TaskFinished]
           /\ held' = scoped(held, <<"task", i>>, "martingale_state")
    /\ UNCHANGED <<stratVars, ledgerVars, execVars, mainpc, round, last_notice,
                   histVars, syncVars, sample>>

\* main.rs 559-569: notify_stats(..).await has returned
TaskStatsNotified(i) ==
    /\ tasks[i].pc = "notify_stats"
    /\ tasks' = [tasks EXCEPT ![i] = TaskFinished]
    /\ last_notice' = "stats"
    /\ stats_sent' = notify_stats(tasks[i].total_rounds)
    /\ UNCHANGED <<stratVars, ledgerVars, execVars, mainpc, round, limit_reached,
                   state_at_entry, at_prepare, low_balance, bets,
                   syncVars, held, sample>>

\* the steps of the i-th reward task: the wait for the rewards, the reads
\* that settle them with the earnings and the statistics, and the claim
TaskWait(i) ==
    \/ TaskWssCheck(i)
    \/ TaskWssSleep(i)
    \/ TaskRpcFallback(i)

TaskSettle(i) ==
    \/ TaskRetry(i)
    \/ TaskAccumulated(i)
    \/ TaskEarnings(i)
    \/ TaskWinNotified(i)
    \/ TaskStats(i)
    \/ TaskStatsNotified(i)

TaskClaim(i) ==
    \/ TaskClaimBlockhashOk(i)
    \/ TaskClaimBlockhashErr(i)
    \/ TaskClaimConfirmed(i)
    \/ TaskClaimRejected(i)
    \/ TaskClaimLost(i)
    \/ TaskClaimBackoff(i)
    \/ TaskClaimBalance(i)
    \/ TaskClaimNotified(i)
    \/ TaskClaimError(i)

TaskOf(i) ==
    \/ TaskWait(i)
    \/ TaskSettle(i)
    \/ TaskClaim(i)

TaskStep == \E i \in DOMAIN tasks : TaskOf(i)

\* The ledger credits the rewards of a round the Miner has won; the program
\* that does so is not part of the repository. It can do so at any time after
\* the win, a lamport and a unit of ORE at a time; rewards_ore, which nothing
\* claims, counts what has been credited.
LedgerCredit ==
    /\ tasks # <<>>
    /\ IsSome(ledger_miner)
    /\ Unwrap(ledger_miner).rewards_ore < MaxRewards
    /\ ledger_miner' = Some([Unwrap(ledger_miner) EXCEPT !.rewards_sol = @ + 1,
                                                          !.rewards_ore = @ + 1])
    /\ UNCHANGED <<stratVars, slot, board, slot_hashes, execVars, orchVars,
                   histVars, syncVars, held, sample>>

\* main.rs 405, 570, 639: the JoinHandle of the spawned task is dropped and
\* Ok(true) is returned; run_betting_round returns whatever the tasks do
RoundReturnsAfterTasks(ts) == \A i \in DOMAIN ts : ts[i].pc = "done"

RoundReturns(ts) == TRUE

\* main.rs 118-142: the loop takes the result of the round; after an error
\* it sends the error notice and sleeps ERROR_RETRY_WAIT_SECS
\* main.rs 38-39, 192: main returns, by the break or by `?`, and the runtime
\* of #[tokio::main] is dropped with it: a spawned task that has not come to
\* its end is dropped at the await it stands at, before update_earnings or
\* after it
shutdown(ts) ==
    [i \in DOMAIN ts |->
       IF ts[i].pc \in {"done", "dropped", "dropped_late"} THEN ts[i]
       ELSE IF ts[i].pc \in {"notify_win", "stats", "notify_stats"}
            THEN [TaskFinished EXCEPT !.pc = "dropped_late"]
       ELSE [TaskFinished EXCEPT !.pc = "dropped"]]

\* the tasks after a step of main that leaves it at pc
tasks_after(pc, ts) == IF pc \in {"exited", "failed"} THEN shutdown(ts) ELSE ts

MainAfterRound ==
    /\ mainpc = "after_round"
    /\ RoundReturns(tasks)
    /\ \E sent \in NotifyResults :
          LET c == LoopControl(Unwrap(round.result))
          IN  /\ mainpc' = IF c = "continue" THEN "balance"
                           ELSE OnNotifyResult(sent, IF c = "break" THEN "exited"
                                                     ELSE "balance")
              /\ last_notice' = IF c = "break" THEN "paused"
                                ELSE IF c = "cooldown" THEN "error" ELSE last_notice
              /\ tasks' = tasks_after(mainpc', tasks)
    /\ round' = RoundIdle
    /\ UNCHANGED <<stratVars, ledgerVars, execVars, histVars, syncVars, held, sample>>

\* main.rs 145-147: get_balance(..).await? has returned; below the floor the
\* error is logged and the notice is handed to the notifier
MainBalance ==
    /\ mainpc = "balance"
    /\ \E bal \in Balances : \E rpc \in RpcValue(bal) :
          /\ mainpc' = IF ~rpc.ok THEN "failed"
                       ELSE IF BalanceTooLow(Unwrap(rpc.val), config.monitoring)
                       THEN "notify_balance"
                       ELSE "wait_board"
          /\ low_balance' = (rpc.ok /\ bal < min_balance_lamports(config.monitoring))
          /\ tasks' = tasks_after(mainpc', tasks)
    /\ UNCHANGED <<stratVars, ledgerVars, execVars, round, last_notice,
                   limit_reached, state_at_entry, at_prepare, bets, stats_sent, syncVars, held, sample>>

\* main.rs 149-156, 191-192: discord.notify_error(..).await has returned,
\* the loop breaks and main returns
MainBalanceNotified ==
    /\ mainpc = "notify_balance"
    /\ \E sent \in NotifyResults :
          /\ mainpc' = OnNotifyResult(sent, "exited")
          /\ tasks' = tasks_after(mainpc', tasks)
    /\ last_notice' = "balance"
    /\ UNCHANGED <<stratVars, ledgerVars, execVars, round,
                   histVars, syncVars, held, sample>>

\* main.rs 160, 184-187: the Board is read to size the wait
MainWaitBoard ==
    /\ mainpc = "wait_board"
    /\ \E rpc \in RpcRead(board) :
          IF get_account(rpc).ok
          THEN mainpc' = "wait_slot" /\ UNCHANGED <<round, state_at_entry>>
          ELSE EnterRound
    /\ UNCHANGED <<stratVars, ledgerVars, execVars, tasks, last_notice,
                   limit_reached, at_prepare, low_balance, bets, stats_sent, syncVars, held, sample>>

\* main.rs 162-182: the slot is read, the wait is slept, the loop goes round
MainWaitSlot ==
    /\ mainpc = "wait_slot"
    /\ \E rpc \in RpcValue(slot) : EnterRound
    /\ UNCHANGED <<stratVars, ledgerVars, execVars, tasks, last_notice,
                   limit_reached, at_prepare, low_balance, bets, stats_sent, syncVars, held, sample>>

\* the ledger ends the Board's round: the rng of the round is settled and,
\* while rounds remain, the Board moves to the next one
LedgerReset ==
    /\ RoundComplete(board, slot)
    /\ slot_hashes[board.round_id] = UnsettledHash
    /\ \E r \in Rngs :
          slot_hashes' = [slot_hashes EXCEPT ![board.round_id] = SettledHash(r)]
    /\ board' = IF board.round_id < LastRound
                THEN [round_id |-> board.round_id + 1, start_slot |-> slot,
                      end_slot |-> slot + RoundLen]
                ELSE board
    /\ UNCHANGED <<stratVars, slot, ledger_miner, execVars,
                   orchVars, histVars, syncVars, held, sample>>

(***************************************************************************)
(* Spec: the program against the ledger                                    *)
(***************************************************************************)
SpecConfigs ==
    { BotConfig([DefaultConfig.martingale EXCEPT !.max_consecutive_losses = cap]) :
        cap \in {1, 2} }

\* main.rs 60-110: the program before its first step, whatever its config
StartOfMain ==
    /\ state = new(base_bet_lamports(config.martingale))
    /\ last_call = Call("new", TRUE, FALSE, 0)
    /\ streak = 0
    /\ slot = 1
    /\ board = InitialBoard
    /\ ledger_miner \in { None, Some(Miner(FirstRound - 2, FirstRound - 1, 0, 0)) }
    /\ slot_hashes = InitialSlotHashes
    /\ exec = ExecIdle
    /\ last_tx = None
    /\ mainpc = "start"
    /\ round = RoundIdle
    /\ tasks = <<>>
    /\ last_notice = "none"
    /\ limit_reached = FALSE
    /\ state_at_entry = state
    /\ at_prepare = None
    /\ low_balance = FALSE
    /\ bets = <<>>
    /\ stats_sent = <<>>
    /\ NoSynchronizer
    /\ NoSample

Init ==
    /\ config \in SpecConfigs
    /\ StartOfMain

MainStep ==
    \/ MainCheckBalance
    \/ MainInitMiner
    \/ RoundGetBoard
    \/ RoundIsActive
    \/ RoundInactive
    \/ RoundGetRound
    \/ RoundRewardsBefore
    \/ RoundPrepareBet
    \/ ExecGetBlockhashOk
    \/ ExecGetBlockhashErr
    \/ ExecSign
    \/ ExecSendConfirmed
    \/ ExecSendRejected
    \/ ExecSendLost
    \/ ExecBackoff
    \/ RoundBetReturned
    \/ SettleSleep
    \/ SettleGetBoard
    \/ SettleIsComplete
    \/ RoundFinal
    \/ RoundRngRetry
    \/ RoundWon
    \/ RoundLost
    \/ RoundLossNotified
    \/ RoundLossWarned
    \/ RoundLossCounters
    \/ RoundLossStats
    \/ RoundNoRng
    \/ MainAfterRound
    \/ MainBalance
    \/ MainBalanceNotified
    \/ MainWaitBoard
    \/ MainWaitSlot

Next ==
    \/ MainStep
    \/ Tick
    \/ LedgerReset

Spec == Init /\ [][Next]_vars

\* The tokio runtime polls the main task whenever it can proceed: sleeps
\* elapse and RPC calls return, with an answer or with an error.
\* The Miner account is there from the start.
InitLive ==
    /\ Init
    /\ IsSome(ledger_miner)

SpecLive == InitLive /\ [][Next]_vars /\ WF_vars(MainStep)

(***************************************************************************)
(* SpecTasks: the program with its reward tasks, the connection worker     *)
(* never getting a connection. The auto-claim threshold is a lamport and   *)
(* this ledger credits nothing, so that no task comes to a claim.          *)
(***************************************************************************)
InitTasks ==
    /\ config = DefaultConfig
    /\ StartOfMain
    /\ IsSome(ledger_miner)

NextTasks ==
    \/ Next
    \/ \E i \in DOMAIN tasks : TaskWait(i) \/ TaskSettle(i)

SpecTasks == InitTasks /\ [][NextTasks]_vars

(***************************************************************************)
(* SpecReward: the main task and the reward task of a win, on a ledger     *)
(* that credits the rewards of the round. The stake of a round is          *)
(* MaxStaked lamports, so that the rounds after the first come to the      *)
(* preparation of their bet and no further; the claim is due at two        *)
(* lamports of rewards, and the statistics after every round.              *)
(***************************************************************************)
RewardConfigs ==
    { [BotConfig([DefaultConfig.martingale EXCEPT !.base_bet_amount = 2 * MaxStaked])
         EXCEPT !.monitoring.auto_claim_sol_threshold = t,
                !.discord.stats_notification_interval = 1] : t \in {2, 4} }

InitReward ==
    /\ config \in RewardConfigs
    /\ auto_claim_sol_threshold_lamports(config.monitoring) = 2
    /\ StartOfMain
    /\ IsSome(ledger_miner)

NextReward ==
    \/ Next
    \/ TaskStep
    \/ LedgerCredit

SpecReward == InitReward /\ [][NextReward]_vars

(***************************************************************************)
(* SpecCredit: the reward tasks of two won rounds and the crediting        *)
(* ledger, while main stands at the end of the second round                *)
(***************************************************************************)
\* The program when run_betting_round has returned from its second win:
\* rounds FirstRound and FirstRound + 1 were bet on and won before the ledger
\* has credited anything; the reward task of each has waited for the
\* snapshot in vain, has read rewards of 0 by RPC and stands at its retry
\* loop. It is the state SpecTasks comes to by that path, variable for
\* variable.
AfterWait(t) == [t EXCEPT !.pc = "retry", !.wait = WaitIdle]

AfterSecondWin ==
    /\ config = [DefaultConfig EXCEPT !.monitoring.auto_claim_sol_threshold = 2]
    /\ state = [new(base_bet_lamports(config.martingale)) EXCEPT
                    !.current_round = LastRound, !.total_bet_lamports = 2,
                    !.last_win_time = Some(2), !.win_count = 2]
    /\ last_call = Call("reset_after_win", TRUE, FALSE, 0)
    /\ streak = 0
    /\ slot = MaxSlot
    /\ board = [round_id |-> LastRound, start_slot |-> 1 + RoundLen,
                end_slot |-> 1 + 2 * RoundLen]
    /\ ledger_miner = Some(Miner(FirstRound, LastRound, 0, 0))
    /\ slot_hashes = [r \in Rounds |-> IF r < FirstRound THEN InitialSlotHashes[r]
                                        ELSE SettledHash(TOTAL_BLOCKS)]
    /\ exec = ExecIdle
    /\ last_tx = None
    /\ mainpc = "after_round"
    /\ round = Return(Some(Ok(TRUE)))
    /\ tasks = << AfterWait(RewardTask(FirstRound, 0, 0, 0, 1, 1)),
                  AfterWait(RewardTask(LastRound, 0, 0, 0, 1, 1)) >>
    /\ last_notice = "bet"
    /\ limit_reached = FALSE
    /\ state_at_entry = [new(base_bet_lamports(config.martingale)) EXCEPT
                             !.current_round = FirstRound, !.total_bet_lamports = 1,
                             !.last_win_time = Some(1), !.win_count = 1]
    /\ at_prepare = None
    /\ low_balance = FALSE
    /\ bets = <<FirstRound, LastRound>>
    /\ stats_sent = <<>>
    /\ wss = wss_worker
    /\ miner_state = None
    /\ wait = WaitIdle
    /\ held = {}
    /\ NoSample

NextCredit ==
    \/ \E i \in DOMAIN tasks : TaskSettle(i) \/ TaskClaim(i)
    \/ LedgerCredit

SpecCredit == AfterSecondWin /\ [][NextCredit]_vars

(***************************************************************************)
(* SpecWon: the reward task of a first win, the ledger that credits the    *)
(* rewards and goes on producing slots, and the connection worker in its   *)
(* message loop, while main stands at the end of the round                 *)
(***************************************************************************)
\* The program when run_betting_round has returned from the win of its first
\* round, with the configs of SpecReward: the state SpecReward comes to, but
\* for the worker, which has connected and subscribed meanwhile.
AfterFirstWin ==
    /\ config \in RewardConfigs
    /\ state = [new(base_bet_lamports(config.martingale)) EXCEPT
                    !.current_round = FirstRound, !.total_bet_lamports = MaxStaked,
                    !.last_win_time = Some(1), !.win_count = 1]
    /\ last_call = Call("reset_after_win", TRUE, FALSE, 0)
    /\ streak = 0
    /\ slot = 1 + RoundLen
    /\ board = [round_id |-> LastRound, start_slot |-> 1 + RoundLen,
                end_slot |-> 1 + 2 * RoundLen]
    /\ ledger_miner = Some(Miner(FirstRound - 1, FirstRound, 0, 0))
    /\ slot_hashes = [InitialSlotHashes EXCEPT ![FirstRound] = SettledHash(TOTAL_BLOCKS)]
    /\ exec = ExecIdle
    /\ last_tx = None
    /\ mainpc = "after_round"
    /\ round = Return(Some(Ok(TRUE)))
    /\ tasks = << RewardTask(FirstRound, 0, 0, 0, MaxStaked, MaxStaked) >>
    /\ last_notice = "bet"
    /\ limit_reached = FALSE
    /\ state_at_entry = new(base_bet_lamports(config.martingale))
    /\ at_prepare = None
    /\ low_balance = FALSE
    /\ bets = <<FirstRound>>
    /\ stats_sent = <<>>
    /\ wss = [connected(wss_worker) EXCEPT !.pc = "streaming"]
    /\ miner_state = None
    /\ wait = WaitIdle
    /\ held = {}
    /\ NoSample

\* The Miner account as the ledger holds it now; the model knows nothing of
\* the high half of rewards_factor, which is read for rewards_sol.
LedgerAccounts ==
    { MinerAccount(Unwrap(ledger_miner), 0, hi, 0) : hi \in {0, 2} }

\* the stream reports the Miner account of the ledger
WssAccountNotification ==
    /\ IsSome(ledger_miner)
    /\ notified(LedgerAccounts)

NextWon ==
    \/ TaskStep
    \/ LedgerCredit
    \/ Tick
    \/ WssAccountNotification

SpecWon == AfterFirstWin /\ [][NextWon]_vars

(***************************************************************************)
(* SpecSync: the Synchronizer and one caller of wait_for_wss_update        *)
(***************************************************************************)

\* main, the executor and the ledger are not part of the behaviours of
\* SpecSync and SpecRound
ProgramIdle ==
    /\ config = DefaultConfig
    /\ state = new(base_bet_lamports(config.martingale))
    /\ last_call = Call("new", TRUE, FALSE, 0)
    /\ streak = 0
    /\ slot = 1
    /\ board = InitialBoard
    /\ ledger_miner = None
    /\ slot_hashes = InitialSlotHashes
    /\ exec = ExecIdle
    /\ last_tx = None
    /\ NoMainTask

\* the baselines and the timeouts, in milliseconds, of the calls
WaitBaselines == {0, 2}
WaitTimeouts == {0, 250, WSS_UPDATE_TIMEOUT_SECS * 1000}

InitSync ==
    /\ ProgramIdle
    /\ wss = wss_worker
    /\ miner_state = None
    /\ wait \in { wait_for_wss_update(b, t) : b \in WaitBaselines, t \in WaitTimeouts }
    /\ held = {}
    /\ NoSample

WssStep ==
    \/ WssConnectOk
    \/ WssConnectErr
    \/ WssLockWrite
    \/ WssSubscribeOk
    \/ WssSubscribeErr
    \/ WssNotification
    \/ WssIgnored
    \/ WssLost
    \/ WssBackoff

KeepaliveStep ==
    \/ KeepaliveLock
    \/ KeepalivePingOk
    \/ KeepalivePingErr

WaitStep ==
    \/ SyncWaitCheck
    \/ SyncWaitSleep

NextSync ==
    \/ WssStep
    \/ KeepaliveStep
    \/ WaitStep

SpecSync == InitSync /\ [][NextSync]_vars

\* The tokio runtime polls every task that can proceed: a connect, a send and
\* a sleep come to an end, and the mutex of the write half is granted in the
\* order of the requests. Nothing makes the stream deliver a message.
SpecSyncLive ==
    /\ SpecSync
    /\ WF_vars(WssConnectOk \/ WssConnectErr \/ WssSubscribeOk \/ WssSubscribeErr \/ WssBackoff)
    /\ SF_vars(WssLockWrite)
    /\ WF_vars(KeepalivePingOk \/ KeepalivePingErr)
    /\ WF_vars(WaitStep)

(***************************************************************************)
(* SpecRound: Round::rng and Round::winning_square on sample slot hashes   *)
(***************************************************************************)

\* the 64-bit words the sample hashes are made of, as little-endian bytes
SampleWords ==
    { to_le_bytes(0, 8), to_le_bytes(25, 8), <<255, 255, 255, 255, 255, 255, 255, 255>>,
      <<1, 2, 3, 4, 5, 6, 7, 8>>, <<0, 0, 0, 0, 0, 0, 0, 128>> }

SampleHashes == { a \o b \o c \o d : a \in SampleWords, b \in SampleWords,
                                     c \in SampleWords, d \in SampleWords }

InitRound ==
    /\ ProgramIdle
    /\ NoSynchronizer
    /\ sample \in { [SampleIdle EXCEPT !.pc = "hash", !.slot_hash = h] : h \in SampleHashes }

NextRound ==
    \/ SampleRng
    \/ SampleWinningSquare

SpecRound == InitRound /\ [][NextRound]_vars

(***************************************************************************)
(* SpecPure: the pure functions applied to sample inputs                   *)
(***************************************************************************)
\* the u64 values of the samples
SampleU64 == { U64(0), U64(1000), U64_MAX, <<1, 2, 3, 4>> }

\* u64::to_le_bytes of a value held in limbs
u64_to_le_bytes(x) ==
    to_le_bytes(x[4], 2) \o to_le_bytes(x[3], 2) \o to_le_bytes(x[2], 2) \o to_le_bytes(x[1], 2)

\* the bytes of a record of words as the ledger holds them
RECURSIVE bytes_of(_)
bytes_of(x) == IF x = <<>> THEN <<>> ELSE u64_to_le_bytes(Head(x)) \o bytes_of(Tail(x))

SampleBoards == { <<r, b, e>> : r \in SampleU64, b \in SampleU64, e \in SampleU64 }
SampleDiscriminators == { Bytes(0, 8), Bytes(255, 8), <<105, 0, 0, 0, 0, 0, 0, 0>> }

\* the lengths account data is cut or padded to
SampleLengths == {0, 7, 8, 9, 31, 32, 33, 40}

\* get_account_data returns a Vec<u8>; the allocator places it at a multiple
\* of 16
VecAddrs == {16, 48}

SampleAccountData ==
    { Slice(SubSeq(d \o bytes_of(x) \o Bytes(7, 8), 1, n), a) :
        d \in SampleDiscriminators, x \in SampleBoards, n \in SampleLengths, a \in VecAddrs }

\* amounts per square, in lamports
SampleAmounts == {0, 1, 255, 256, 10000000, 2147483647}

\* Vecs of blocks, by their indices: none, each one, some, all
SampleIndexSets ==
    { <<>>, <<0, 24>>, <<7, 8, 15, 16, 23>>, [i \in 1..TOTAL_BLOCKS |-> i - 1] }
        \cup { <<i>> : i \in 0..(TOTAL_BLOCKS - 1) }

SampleBlocks == { [k \in DOMAIN ixs |-> from_index(ixs[k])] : ixs \in SampleIndexSets }

SampleInstructionArgs ==
    { [pc |-> "deploy_args", amount |-> a, round_id |-> FirstRound, blocks |-> b,
       result |-> None] : a \in SampleAmounts, b \in SampleBlocks }
    \cup { [pc |-> "checkpoint_args", round_id |-> r, result |-> None] :
              r \in {FirstRound - 1, FirstRound} }
    \cup { [pc |-> "claim_args", result |-> None] }

\* Boards as the ledger holds them, start_slot <= end_slot, and slots around
\* their ends
SampleSlots == {0, 1, 2, 3, 995, 999, 1000, 1005, 1009, 1010, 1011, 1012}

SampleBoardSlots ==
    { [pc |-> "board_slot", board |-> [round_id |-> FirstRound, start_slot |-> b, end_slot |-> e],
       slot |-> sl, active |-> None, complete |-> None] :
        <<b, e>> \in { <<1000, 1010>>, <<1, 3>>, <<2, 2>>, <<0, 1>>, <<3, 2147483647>> },
        sl \in SampleSlots }

\* shuffles of (0..TOTAL_BLOCKS): in order, reversed, and two that scatter
SampleShuffles ==
    { [i \in 1..TOTAL_BLOCKS |-> i - 1],
      [i \in 1..TOTAL_BLOCKS |-> TOTAL_BLOCKS - i],
      [i \in 1..TOTAL_BLOCKS |-> (7 * i + 3) % TOTAL_BLOCKS],
      [i \in 1..TOTAL_BLOCKS |-> (12 * i + 12) % TOTAL_BLOCKS] }

\* blocks_per_bet is a u8
SampleCounts == {0, 1, 2, 3, 5, 24, 25, 26, 255}

SampleSelectArgs ==
    { [pc |-> "select_args", indices |-> p, count |-> c, amount |-> a, round_id |-> FirstRound,
       selected |-> <<>>, blocks |-> <<>>, total_bet |-> 0, result |-> None] :
        p \in SampleShuffles, c \in SampleCounts, a \in {1, 10000000} }

InitPure ==
    /\ ProgramIdle
    /\ NoSynchronizer
    /\ sample \in { [pc |-> "account_data", data |-> d, result |-> None] : d \in SampleAccountData }
                    \cup SampleInstructionArgs
                    \cup SampleBoardSlots
                    \cup SampleSelectArgs

NextPure ==
    \/ SampleDeserialize
    \/ SampleBuildDeploy
    \/ SampleBuildCheckpoint
    \/ SampleBuildClaim
    \/ SampleClassify
    \/ SampleSelect

SpecPure == InitPure /\ [][NextPure]_vars

(***************************************************************************)
(* Claims about the strategy                                               *)
(***************************************************************************)

\* round(B * m^k), computed exactly
RoundOfPower(B, m, k) ==
    (2 * B * Pow(m.num, k) + Pow(m.den, k)) \div (2 * Pow(m.den, k))

\* the k-fold application of s -> round(s * m) to B
RECURSIVE RoundEachStep(_, _, _)
RoundEachStep(B, m, k) ==
    IF k = 0 THEN B
    ELSE LET p == RoundEachStep(B, m, k - 1)
         IN  (2 * p * m.num + m.den) \div (2 * m.den)

MultiplierIsWhole(m) == m.den = 1

\* C4 as stated: after the k-th consecutive on_loss, k < cap, the stake is
\* round(B * m^k) and the call returned continue = true; the call at which
\* the count reaches cap resets the stake to B and returns continue = false.
C4_StakeIsRoundOfPower ==
    last_call.op = "on_loss" =>
        /\ last_call.k < config.martingale.max_consecutive_losses =>
              /\ last_call.should_continue
              /\ state.current_bet_per_block =
                     RoundOfPower(base_bet_lamports(config.martingale), config.martingale.multiplier,
                                  last_call.k)
        /\ last_call.k = config.martingale.max_consecutive_losses =>
              /\ ~last_call.should_continue
              /\ state.current_bet_per_block = base_bet_lamports(config.martingale)

\* C4 amended: the stake after the k-th consecutive on_loss, k < cap, is B
\* with s -> round(s * m) applied k times (round(B * m^k) when m is a whole
\* number), the call returning continue = true; the call at which the count
\* reaches cap resets the stake to B and returns continue = false.
C4_StakeIsRoundedEachStep ==
    last_call.op = "on_loss" =>
        /\ last_call.k < config.martingale.max_consecutive_losses =>
              /\ last_call.should_continue
              /\ state.current_bet_per_block =
                     RoundEachStep(base_bet_lamports(config.martingale), config.martingale.multiplier,
                                   last_call.k)
              /\ MultiplierIsWhole(config.martingale.multiplier) =>
                     state.current_bet_per_block =
                         RoundOfPower(base_bet_lamports(config.martingale),
                                      config.martingale.multiplier, last_call.k)
        /\ last_call.k = config.martingale.max_consecutive_losses =>
              /\ ~last_call.should_continue
              /\ state.current_bet_per_block = base_bet_lamports(config.martingale)

\* two losses at multiplier 1.5 below the cap, and a loss that hit the cap
C4_Witness ==
    /\ last_call.op = "on_loss"
    /\ last_call.k = 2
    /\ last_call.should_continue
    /\ config.martingale.multiplier = [num |-> 3, den |-> 2]
    /\ state.current_bet_per_block > base_bet_lamports(config.martingale)

\* C5 as stated: the stake is never below the base stake, and is the base
\* stake right after reset_after_win and after an on_loss that hit the cap.
C5_StakeAtLeastBase ==
    /\ state.current_bet_per_block >= base_bet_lamports(config.martingale)
    /\ last_call.op = "reset_after_win" =>
           state.current_bet_per_block = base_bet_lamports(config.martingale)
    /\ (last_call.op = "on_loss" /\ ~last_call.should_continue) =>
           state.current_bet_per_block = base_bet_lamports(config.martingale)

\* C5 amended: with a multiplier of at least 1 the stake is never below the
\* base stake; for every multiplier it is the base stake right after
\* reset_after_win and right after an on_loss that hit the cap.
C5_StakeAtLeastBaseForGrowingMultiplier ==
    /\ config.martingale.multiplier.num >= config.martingale.multiplier.den =>
           state.current_bet_per_block >= base_bet_lamports(config.martingale)
    /\ last_call.op = "reset_after_win" =>
           state.current_bet_per_block = base_bet_lamports(config.martingale)
    /\ (last_call.op = "on_loss" /\ ~last_call.should_continue) =>
           state.current_bet_per_block = base_bet_lamports(config.martingale)

\* a win after a raised stake, under a growing multiplier
C5_Witness ==
    /\ last_call.op = "reset_after_win"
    /\ config.martingale.multiplier.num > config.martingale.multiplier.den
    /\ state.loss_count > 0
    /\ state.total_bet_lamports > base_bet_lamports(config.martingale)
    /\ state.current_bet_per_block = base_bet_lamports(config.martingale)

(***************************************************************************)
(* Claims about the executor                                               *)
(***************************************************************************)

CheckpointThenDeploy(instructions) ==
    /\ Len(instructions) = 2
    /\ IsCheckpoint(instructions[1])
    /\ IsDeploy(instructions[2])

\* a step in which the ledger settles the Miner (checkpoint_id changes)
CheckpointApplied ==
    /\ IsSome(ledger_miner)
    /\ IsSome(ledger_miner')
    /\ Unwrap(ledger_miner').checkpoint_id # Unwrap(ledger_miner).checkpoint_id

\* the same step moves the Miner to the round of the Deploy
DeployApplied ==
    /\ IsSome(ledger_miner')
    /\ Unwrap(ledger_miner').round_id = board.round_id
    /\ IsSome(ledger_miner) => Unwrap(ledger_miner).round_id # board.round_id

\* C3: every attempt of execute_checkpoint_and_bet hands the node one
\* transaction whose instructions are [Checkpoint, Deploy] in that order, and
\* no step of the ledger applies the checkpoint without the Deploy.
C3_CheckpointDeployOneTransaction ==
    /\ [](IsSome(last_tx) /\ Unwrap(last_tx).call = "execute_checkpoint_and_bet"
             => CheckpointThenDeploy(Unwrap(last_tx).tx.instructions))
    /\ [][CheckpointApplied => DeployApplied]_vars

\* a retry of the combined transaction has landed: the Miner is settled for
\* the round it played and stakes in the Board's round
C3_Witness ==
    /\ IsSome(last_tx)
    /\ Unwrap(last_tx).call = "execute_checkpoint_and_bet"
    /\ Unwrap(last_tx).attempt = 2
    /\ exec.pc = "returned"
    /\ Unwrap(exec.result).ok
    /\ IsSome(ledger_miner)
    /\ Unwrap(ledger_miner).checkpoint_id = FirstRound - 1
    /\ Unwrap(ledger_miner).round_id = FirstRound

\* C8: at most max_retries attempts are made; the call returns at the first
\* attempt that confirms, with the signature of that attempt's transaction;
\* if every attempt fails it returns the error of the last attempt.
C8_RetryOutcome ==
    /\ exec.attempt <= max_retries
    /\ exec.pc # "returned" => exec.result = None
    /\ exec.pc = "returned" =>
          /\ IsSome(exec.result)
          /\ IF Unwrap(exec.result).ok
             THEN /\ IsSome(last_tx)
                  /\ Unwrap(last_tx).attempt = exec.attempt
                  /\ Unwrap(exec.result).val = Some(Unwrap(last_tx).tx.signature)
             ELSE /\ exec.attempt = max_retries
                  /\ Unwrap(Unwrap(exec.result).err).attempt = max_retries

\* all three attempts failed, the last one at the blockhash fetch after an
\* earlier one had failed at the submission
C8_Witness ==
    /\ exec.pc = "returned"
    /\ ~Unwrap(exec.result).ok
    /\ Unwrap(Unwrap(exec.result).err).at = "get_latest_blockhash"
    /\ IsSome(last_tx)
    /\ Unwrap(last_tx).attempt < exec.attempt

\* C9: a transaction is handed to the node only after the blockhash fetch and
\* the signing of the same attempt; no attempt submits the blockhash or the
\* signature of an earlier attempt.
C9_FetchAndSignEveryAttempt ==
    /\ exec.pc = "sign" =>
          /\ IsSome(exec.frame.recent_blockhash)
          /\ Unwrap(exec.frame.recent_blockhash).attempt = exec.attempt
    /\ exec.pc = "send" =>
          /\ IsSome(exec.frame.transaction)
          /\ Unwrap(exec.frame.transaction).fetched_in = exec.attempt
          /\ Unwrap(exec.frame.transaction).signed_in = exec.attempt
          /\ Unwrap(exec.frame.transaction).signature =
                 Sign(SignerPubkey, exec.instructions,
                      Unwrap(exec.frame.transaction).recent_blockhash)
    /\ IsSome(last_tx) =>
          /\ Unwrap(last_tx).tx.fetched_in = Unwrap(last_tx).attempt
          /\ Unwrap(last_tx).tx.signed_in = Unwrap(last_tx).attempt

\* a retry about to submit a transaction signed over a later blockhash than
\* the one the failed attempt used
C9_Witness ==
    /\ exec.pc = "send"
    /\ exec.attempt = 2
    /\ IsSome(last_tx)
    /\ Unwrap(last_tx).attempt = 1
    /\ Unwrap(exec.frame.transaction).recent_blockhash >
           Unwrap(last_tx).tx.recent_blockhash

(***************************************************************************)
(* Claims about the orchestrator                                           *)
(***************************************************************************)

\* the Miner the ledger held when the bet in flight was prepared was not
\* settled for the round it had played
UnsettledAtPrepare ==
    /\ IsSome(at_prepare)
    /\ Unwrap(at_prepare).checkpoint_id # Unwrap(at_prepare).round_id

\* C1 as stated: when the ledger's Miner has checkpoint_id # round_id at the
\* moment the bet is prepared, no transaction handed to the node for that bet
\* is a bare Deploy: each is [Checkpoint, Deploy], whatever the Miner read
\* answered.
C1_NoBareDeployWhenUnsettled ==
    (mainpc = "bet" /\ IsSome(last_tx) /\ UnsettledAtPrepare)
        => CheckpointThenDeploy(Unwrap(last_tx).tx.instructions)

\* C2 as stated: with an unsettled Miner, the transaction is a Checkpoint
\* that references the Miner's checkpoint_id (4 for checkpoint_id = 4,
\* round_id = 5) and a Deploy that references the round read from the Board.
C2_CheckpointReferencesCheckpointId ==
    (mainpc = "bet" /\ IsSome(last_tx) /\ UnsettledAtPrepare
       /\ Unwrap(last_tx).call = "execute_checkpoint_and_bet")
        => /\ CheckpointThenDeploy(Unwrap(last_tx).tx.instructions)
           /\ RoundOf(Unwrap(last_tx).tx.instructions[1]) = Unwrap(at_prepare).checkpoint_id
           /\ RoundOf(Unwrap(last_tx).tx.instructions[2]) = round.round_id

\* C2 amended: with an unsettled Miner read from the ledger, the transaction
\* is a Checkpoint that references the Miner's round_id, the round it last
\* played (5 for checkpoint_id = 4, round_id = 5), and a Deploy that
\* references the round read from the Board (6).
C2_CheckpointReferencesMinerRound ==
    (mainpc = "bet" /\ IsSome(last_tx) /\ UnsettledAtPrepare
       /\ Unwrap(last_tx).call = "execute_checkpoint_and_bet")
        => /\ CheckpointThenDeploy(Unwrap(last_tx).tx.instructions)
           /\ RoundOf(Unwrap(last_tx).tx.instructions[1]) = Unwrap(at_prepare).round_id
           /\ RoundOf(Unwrap(last_tx).tx.instructions[2]) = round.round_id

\* the Miner that played round FirstRound - 1 and is settled up to the round
\* before bets in round FirstRound, and the node has the transaction
C2_Witness ==
    /\ mainpc = "bet"
    /\ IsSome(last_tx)
    /\ Unwrap(last_tx).call = "execute_checkpoint_and_bet"
    /\ at_prepare = Some(Miner(FirstRound - 2, FirstRound - 1, 0, 0))
    /\ round.round_id = FirstRound
    /\ board.round_id = FirstRound

\* where the main task stands between on_loss and the return of the round
LossPath == {"notify_loss", "notify_warning", "loss_stats", "notify_stats"}

\* C6: once on_loss has returned should_continue = false, run_betting_round
\* returns Ok(false), the loop of main breaks after the pause notice, and
\* the main task, the only one that bets, hands no transaction to the node
\* again.
C6_NoBetAfterLimit ==
    limit_reached =>
        /\ mainpc \in LossPath \cup {"after_round", "exited"}
        /\ mainpc \in LossPath => ~round.should_continue
        /\ mainpc = "after_round" => round.result = Some(Ok(FALSE))
        /\ mainpc = "exited" => last_notice = "paused"
        /\ exec.pc = "idle"
        /\ ~IsSome(last_tx)

\* the loss that reached the cap was the second bet; the program has left
\* its loop
C6_Witness ==
    /\ limit_reached
    /\ mainpc = "exited"
    /\ state.loss_count = config.martingale.max_consecutive_losses
    /\ state.loss_count = 2

\* the fields of MartingaleState that C7 names
Tracked(s) ==
    << s.current_bet_per_block, s.consecutive_losses, s.total_bet_lamports,
       s.current_cycle_bet_lamports, s.win_count, s.loss_count >>

\* run_betting_round has returned the error of a bet that failed on every
\* attempt
BetFailed ==
    /\ mainpc = "after_round"
    /\ ~Unwrap(round.result).ok
    /\ Unwrap(Unwrap(round.result).err).at \in
           {"get_latest_blockhash", "send_and_confirm_transaction", "confirmation"}

\* run_betting_round has returned the error of a ledger read made before
\* the bet
ReadFailedBeforeBet ==
    /\ mainpc = "after_round"
    /\ ~Unwrap(round.result).ok
    /\ Unwrap(Unwrap(round.result).err).at \in
           {"get_board", "get_slot", "get_round", "get_miner"}

\* C7: when the bet fails on every attempt, or a ledger read fails before
\* the bet, the stake, the consecutive losses, the bet totals and the win and
\* loss counters are what they were when run_betting_round began; so they
\* are at every point before the executor returns.
C7_StateUntouchedWithoutBet ==
    (\/ BetFailed
     \/ ReadFailedBeforeBet
     \/ mainpc \in {"get_board", "is_active", "inactive", "get_round",
                    "rewards_before", "prepare", "bet"})
        => Tracked(state) = Tracked(state_at_entry)

\* a second bet failed on every attempt, after a first one was recorded
C7_Witness ==
    /\ BetFailed
    /\ Unwrap(Unwrap(round.result).err).at = "send_and_confirm_transaction"
    /\ state.total_bet_lamports > 0

InSettle == mainpc \in {"settle_sleep", "settle_board", "settle_slot"}

TimedOut == round.result = Fails("Round completion timeout")

\* C10: the settlement loop always ends. It is left only for the final read
\* of the round, when the slot has reached end_slot of the Board just polled,
\* or with the timeout error, when more than ROUND_COMPLETION_TIMEOUT_SECS
\* have passed; a failed poll does neither and does not extend the time; no
\* bet is sent from inside the loop; main answers the timeout error with the
\* error notice and goes round its loop.
C10_SettleLoopEnds ==
    /\ InSettle ~> ~InSettle
    /\ [](InSettle => /\ exec.pc = "idle"
                      /\ ~IsSome(last_tx)
                      /\ round.elapsed <= ROUND_COMPLETION_TIMEOUT_SECS)
    /\ [][(InSettle /\ ~InSettle') =>
             \/ /\ mainpc = "settle_slot"
                /\ mainpc' = "final_round"
                /\ slot >= round.board_check.end_slot
             \/ /\ mainpc = "settle_sleep"
                /\ mainpc' = "after_round"
                /\ TimedOut'
                /\ round.elapsed + ROUND_COMPLETION_POLL_INTERVAL_SECS * 2
                       > ROUND_COMPLETION_TIMEOUT_SECS]_vars
    /\ [][(mainpc = "after_round" /\ TimedOut /\ mainpc' # mainpc) =>
             (mainpc' = "balance" /\ last_notice' = "error")]_vars

\* the loop was left by the timeout, the ledger never having reached the end
\* of the round
C10_Witness ==
    /\ mainpc = "after_round"
    /\ TimedOut
    /\ slot < board.end_slot

(***************************************************************************)
(* Claims about the handling of errors                                     *)
(***************************************************************************)

\* the rng retry loop has used every attempt and the Round just read still
\* has no rng
RngCeilingReached ==
    /\ mainpc = "rng_check"
    /\ round.rng_attempts = MAX_RNG_ATTEMPTS
    /\ ~IsSome(rng(Unwrap(round.final_round)))

\* C11: the Round is read again at most MAX_RNG_ATTEMPTS times while it has
\* no rng, and a round whose rng is still absent at the ceiling ends as a
\* failure: run_betting_round returns an error, which main reports and
\* follows with the cooldown.
C11_NoRngIsFailure ==
    /\ [](round.rng_attempts <= MAX_RNG_ATTEMPTS)
    /\ [][(RngCeilingReached /\ mainpc' = "after_round") =>
             ~Unwrap(round'.result).ok]_vars

\* run_betting_round has returned an error to main
RoundFailed == mainpc = "after_round" /\ ~Unwrap(round.result).ok

\* C12: an error of run_betting_round, whichever await it comes from, is
\* returned to the loop of main, which sends the error notice, sleeps the
\* cooldown and goes on to the balance check and the next round, whether or
\* not the notice could be delivered; the loop is left only on the balance
\* read (failed or below the floor) or when on_loss has said stop.
C12_RoundErrorsAreRetried ==
    /\ [][(~IsSome(round.result) /\ IsSome(round'.result)) => mainpc' = "after_round"]_vars
    /\ [][(RoundFailed /\ mainpc' # mainpc) =>
             (mainpc' = "balance" /\ last_notice' = "error")]_vars
    /\ [][(mainpc = "balance" /\ mainpc' # mainpc) =>
             /\ mainpc' \in {"wait_board", "failed", "notify_balance"}
             /\ mainpc' = "notify_balance" <=> low_balance']_vars
    /\ [][(mainpc = "notify_balance" /\ mainpc' # mainpc) =>
             (mainpc' = "exited" /\ last_notice' = "balance")]_vars
    /\ [][(mainpc \in {"wait_board", "wait_slot"} /\ mainpc' # mainpc) =>
             mainpc' \in {"wait_slot", "get_board"}]_vars

\* a round has failed after its Board was read, the cooldown is over and the
\* next round has been entered
C12_Witness ==
    /\ mainpc = "get_board"
    /\ last_notice = "error"
    /\ state.current_round = FirstRound
    /\ state.total_bet_lamports = 0

(***************************************************************************)
(* Claims about the balance floor                                          *)
(***************************************************************************)

\* C13: once a balance read, at start-up or after a round, is below the
\* floor, main is over or on its way out (start-up: it returns the error;
\* loop: it sends the notice, breaks and returns), the executor of the bets
\* is idle and hands no transaction to the node from then on, and the only
\* step main still takes is the one that ends it.
C13_LowBalanceHalts ==
    /\ [](low_balance => /\ mainpc \in {"notify_balance", "failed", "exited"}
                          /\ exec.pc = "idle"
                          /\ ~IsSome(last_tx))
    /\ [][low_balance => /\ low_balance' /\ last_tx' = last_tx /\ exec' = exec
                         /\ bets' = bets
                         /\ mainpc' \in {mainpc, "exited"}]_vars

\* the balance fell below the floor after a round in which a bet was placed
C13_Witness ==
    /\ low_balance
    /\ mainpc = "exited"
    /\ last_notice = "balance"
    /\ state.total_bet_lamports > 0

(***************************************************************************)
(* Claims about the Synchronizer                                           *)
(***************************************************************************)

Returns == wait.pc # "returned" /\ wait'.pc = "returned"

\* C15: wait_for_wss_update returns a snapshot only when the snapshot it has
\* just read has rewards_sol strictly above the baseline, and it returns None
\* only once the timeout has elapsed; at no point has more time passed than
\* the timeout and one poll interval; and the call always returns.
C15_WaitForUpdate ==
    /\ [][(Returns /\ IsSome(wait'.result)) =>
             /\ wait'.result = miner_state
             /\ Unwrap(miner_state).rewards_sol > wait.baseline
             /\ wait.elapsed_ms < wait.timeout_ms]_vars
    /\ [][(Returns /\ ~IsSome(wait'.result)) => wait.elapsed_ms >= wait.timeout_ms]_vars
    /\ [](wait.elapsed_ms < wait.timeout_ms + WSS_POLL_INTERVAL_MS)
    /\ (wait.pc \in {"check", "sleep"}) ~> (wait.pc = "returned")

\* the snapshot rose above the baseline inside the window, after the first poll
C15_Witness ==
    /\ wait.pc = "returned"
    /\ IsSome(wait.result)
    /\ wait.elapsed_ms > 0
    /\ Unwrap(wait.result).rewards_sol > wait.baseline

\* C16: the reconnect delay of the connection worker stays between 1000 ms
\* and 60000 ms; it doubles, capped, when the sleep after a failed connect, a
\* failed subscribe or a lost connection is over, it is set to 1000 ms when a
\* connection is established, and nothing else changes it; every such failure
\* leads to that sleep.
C16_ReconnectDelay ==
    /\ [](wss.retry_delay_ms >= 1000 /\ wss.retry_delay_ms <= 60000)
    /\ [][wss'.retry_delay_ms =
             IF wss.pc = "backoff" /\ wss'.pc # "backoff"
             THEN (IF 2 * wss.retry_delay_ms > 60000 THEN 60000 ELSE 2 * wss.retry_delay_ms)
             ELSE IF wss.pc = "connecting" /\ wss'.pc = "lock_write"
             THEN 1000
             ELSE wss.retry_delay_ms]_vars
    /\ [][(/\ wss.pc \in {"connecting", "subscribing", "streaming"}
           /\ wss'.pc \notin {wss.pc, "lock_write", "streaming"}) => wss'.pc = "backoff"]_vars

\* connects have failed until the delay reached the cap
C16_Witness ==
    /\ wss.pc = "connecting"
    /\ wss.retry_delay_ms = MAX_RETRY_DELAY_MS
    /\ wss.keepalive = "none"

WssTransitions ==
    { <<"connecting", "lock_write">>, <<"connecting", "backoff">>,
      <<"lock_write", "subscribing">>,
      <<"subscribing", "streaming">>, <<"subscribing", "backoff">>,
      <<"streaming", "backoff">>,
      <<"backoff", "connecting">> }

\* C17: the connection worker never returns and never stays where it cannot
\* go on: a failed connect, a failed subscribe and a lost stream (Close,
\* error, end) take it to the backoff sleep, after which it connects again;
\* a connect and a subscribe come to an end.
C17_WorkerNeverStops ==
    /\ [](wss.pc \in {"connecting", "lock_write", "subscribing", "streaming", "backoff"})
    /\ [][wss'.pc # wss.pc => <<wss.pc, wss'.pc>> \in WssTransitions]_vars
    /\ (wss.pc = "backoff") ~> (wss.pc = "connecting")
    /\ (wss.pc \in {"connecting", "lock_write", "subscribing"})
          ~> (wss.pc \in {"streaming", "backoff"})

\* the stream was lost and the worker connects again
C17_Witness ==
    /\ wss.pc = "connecting"
    /\ wss.keepalive = "aborted"
    /\ IsSome(miner_state)

\* C18 as stated: no task stands at an await with a guard alive.
C18_NoLockAcrossAwait == held = {}

\* C18, amended: no guard of the MartingaleState mutex or of the snapshot lock
\* is alive at an await; the guard of the write half is alive at one await
\* only, the send it is taken for (the subscribe request of the worker, the
\* ping of the keep-alive task), and is gone before the task sleeps, waits
\* for the interval or reads the stream.
C18_LockHeldAcrossSendOnly ==
    /\ \A p \in held :
          /\ p[2] = "write"
          /\ \/ p[1] = "worker" /\ wss.pc = "subscribing"
             \/ p[1] = "keepalive" /\ wss.keepalive = "pinging"
    /\ Cardinality(held) <= 1
    /\ wss.pc = "subscribing" => <<"worker", "write">> \in held
    /\ wss.keepalive = "pinging" => <<"keepalive", "write">> \in held

\* the keep-alive task sends a ping, the guard alive, while the worker reads
\* the stream
C18_Witness ==
    /\ held = {<<"keepalive", "write">>}
    /\ wss.pc = "streaming"

(***************************************************************************)
(* Claims about the Round account                                          *)
(***************************************************************************)

\* bit j of the slot_hash read as a 256-bit little-endian number, and bit k
\* of a u64
HashBit(h, j) == (h[(j \div 8) + 1] \div (2 ^ (j % 8))) % 2
U64Bit(x, k) == (x[4 - (k \div 16)] \div (2 ^ (k % 16))) % 2

Uniform(h, b) == \A i \in 1..32 : h[i] = b

\* C19: rng() is None exactly for the slot_hash of 32 bytes 0x00 and the one
\* of 32 bytes 0xFF; for every other slot_hash it is a u64 whose bit k is the
\* XOR of bit k of the four little-endian words, the value 0 included.
C19_RngIsXorOfWords ==
    sample.pc \in {"rng", "square"} =>
        LET h == sample.slot_hash
            r == sample.rng
        IN  /\ ~IsSome(r) <=> (Uniform(h, 0) \/ Uniform(h, 255))
            /\ IsSome(r) =>
                  /\ \A i \in 1..4 : Unwrap(r)[i] \in 0..(LIMB - 1)
                  /\ \A k \in 0..63 :
                        U64Bit(Unwrap(r), k) =
                            (HashBit(h, k) + HashBit(h, 64 + k)
                               + HashBit(h, 128 + k) + HashBit(h, 192 + k)) % 2

\* the words of a slot_hash that is not all zero cancel out: rng() is Some(0)
C19_Witness ==
    /\ sample.pc = "rng"
    /\ sample.rng = Some(U64(0))
    /\ ~Uniform(sample.slot_hash, 0)

\* C20: winning_square(rng) is rng mod 25, a cell index in 0..24, for every
\* u64: 2^16, 2^32 and 2^48 are 11, 21 and 6 modulo 25.
C20_WinningSquareIsMod25 ==
    sample.pc = "square" =>
        LET x == Unwrap(sample.rng)
            square == Unwrap(sample.square)
        IN  /\ square \in 0..(TOTAL_BLOCKS - 1)
            /\ square = (x[1] * 6 + x[2] * 21 + x[3] * 11 + x[4]) % 25
            /\ (x[1] = 0 /\ x[2] = 0 /\ x[3] < 2 ^ 15) =>
                  square = (x[3] * LIMB + x[4]) % 25

\* the largest u64, 18446744073709551615, is 15 modulo 25
C20_Witness ==
    /\ sample.pc = "square"
    /\ sample.rng = Some(U64_MAX)
    /\ sample.square = Some(15)

\* the main task is where the model stops preparing bets
StakeBoundReached == mainpc = "rewards_before" /\ state.total_bet_lamports >= MaxStaked

\* the step of run_betting_round that spawns a reward task
SpawnsTask == Len(tasks') = Len(tasks) + 1

\* C14: the step that spawns the reward task is the win step of
\* run_betting_round: it resets the strategy and returns Ok(true) with the
\* task at its first await; and wherever the reward tasks and the connection
\* worker are, the main task has a step to take until it exits.
C14_WinReturnsWithoutJoin ==
    /\ [][SpawnsTask =>
            /\ mainpc = "rng_check"
            /\ mainpc' = "after_round"
            /\ round'.result = Some(Ok(TRUE))
            /\ state'.consecutive_losses = 0
            /\ state'.current_cycle_bet_lamports = 0
            /\ state'.current_bet_per_block = base_bet_lamports(config.martingale)
            /\ state'.win_count = state.win_count + 1
            /\ tasks'[Len(tasks')].pc = "wss_wait"
            /\ tasks'[Len(tasks')].round_id = round.round_id]_vars
    /\ []((mainpc \notin {"exited", "failed"} /\ ~StakeBoundReached) => ENABLED MainStep)

\* the bet of the next round is confirmed while the reward task of the round
\* won before is at its first await and the connection worker has no
\* connection
C14_Witness ==
    /\ mainpc = "bet"
    /\ exec.pc = "returned"
    /\ Unwrap(exec.result).ok
    /\ round.round_id = FirstRound + 1
    /\ Len(tasks) = 1
    /\ tasks[1].round_id = FirstRound
    /\ tasks[1].pc = "wss_wait"
    /\ wss.pc = "connecting"

(***************************************************************************)
(* Claims about the decoders and encoders                                  *)
(***************************************************************************)

\* C21: deserialize_account fails on every input shorter than
\* 8 + size_of::<T>(); on 8 bytes of any discriminator followed by the bytes
\* of a record it returns that record.
C21_DeserializeRoundTrip ==
    sample.pc = "deserialized" =>
        /\ Len(sample.data.bytes) < 8 + size_of(BoardLayout) => ~Unwrap(sample.result).ok
        /\ \A x \in SampleBoards :
              SubSeq(sample.data.bytes, 9, Len(sample.data.bytes)) = bytes_of(x)
                  => sample.result = Some(Ok(x))

\* a Board with three different words behind a discriminator of 0xFF bytes
\* has been read back
C21_Witness ==
    /\ sample.pc = "deserialized"
    /\ sample.data.bytes = Bytes(255, 8) \o bytes_of(<<U64(1000), U64_MAX, <<1, 2, 3, 4>>>>)
    /\ sample.result = Some(Ok(<<U64(1000), U64_MAX, <<1, 2, 3, 4>>>>))

Built(args) == sample.pc = "instruction" /\ Len(Unwrap(sample.result).accounts) = args

\* C22: the data of a Deploy is 13 bytes: 6, the amount as 8 little-endian
\* bytes, and 4 bytes whose bit i is set exactly when block i is among the
\* blocks (bits 25 to 31 clear); the data of a Checkpoint is the byte 2 and
\* that of a claim the byte 3. The sample amounts are below 2^31, so their
\* four high bytes are 0.
C22_InstructionData ==
    /\ Built(7) =>
          LET data == Unwrap(sample.result).data
              mask == SubSeq(data, 10, 13)
          IN  /\ Len(data) = 13
              /\ data[1] = 6
              /\ \A k \in 0..3 : data[2 + k] = (sample.amount \div Pow(256, k)) % 256
              /\ \A k \in 4..7 : data[2 + k] = 0
              /\ \A i \in 0..31 : BitOf(mask, i) = 1 <=> i \in block_indices(sample.blocks)
    /\ Built(6) => Unwrap(sample.result).data = <<2>>
    /\ Built(3) => Unwrap(sample.result).data = <<3>>

\* 0.01 SOL on blocks 7, 8, 15, 16 and 23: 0x989680 and mask 0x00818180
C22_Witness ==
    /\ Built(7)
    /\ sample.amount = 10000000
    /\ block_indices(sample.blocks) = {7, 8, 15, 16, 23}
    /\ Unwrap(sample.result).data = <<6, 128, 150, 152, 0, 0, 0, 0, 0, 128, 129, 129, 0>>

(***************************************************************************)
(* More claims about the strategy                                          *)
(***************************************************************************)

\* C23: reset_after_win sets consecutive_losses and the cycle total to 0 and
\* the stake to the base stake, adds 1 to win_count, and leaves the lifetime
\* bet total, the lifetime earnings and loss_count as they were.
C23_ResetAfterWin ==
    [][StratResetAfterWin =>
          /\ state'.consecutive_losses = 0
          /\ state'.current_cycle_bet_lamports = 0
          /\ state'.current_bet_per_block = base_bet_lamports(config.martingale)
          /\ state'.win_count = state.win_count + 1
          /\ state'.total_bet_lamports = state.total_bet_lamports
          /\ state'.total_earned_ore = state.total_earned_ore
          /\ state'.total_earned_sol = state.total_earned_sol
          /\ state'.loss_count = state.loss_count]_vars

\* the first win came after one uncapped loss, a recorded bet and credited
\* earnings
C23_Witness ==
    /\ last_call.op = "reset_after_win"
    /\ state.win_count = 1
    /\ state.loss_count = 1
    /\ config.martingale.max_consecutive_losses > 1
    /\ state.total_bet_lamports > 0
    /\ state.total_earned_sol > 0

\* C24: in a run of consecutive losses counted from zero, on_loss returns
\* should_warn = false for each loss before the count reaches
\* warn_consecutive_losses and should_warn = true for the loss at which it
\* reaches it, the loss that reaches max_consecutive_losses included.
C24_WarnAtThreshold ==
    last_call.op = "on_loss" =>
        /\ last_call.k < config.martingale.warn_consecutive_losses => ~last_call.should_warn
        /\ last_call.k = config.martingale.warn_consecutive_losses => last_call.should_warn

\* the second loss of a run reaches the warning threshold and the cap at once
C24_Witness ==
    /\ last_call.op = "on_loss"
    /\ last_call.k = 2
    /\ config.martingale.warn_consecutive_losses = 2
    /\ config.martingale.max_consecutive_losses = 2
    /\ last_call.should_warn
    /\ ~last_call.should_continue

(***************************************************************************)
(* Claims about the round's window and the blocks                          *)
(***************************************************************************)

\* C25: a round is active exactly when start_slot <= slot < end_slot and
\* complete exactly when slot >= end_slot; a slot before start_slot is
\* neither, no slot is both, and end_slot itself is complete and not active.
\* For the Board of slots 1000 to 1010: 995 is neither, 1005 is active, 1012
\* is complete.
C25_RoundWindow ==
    sample.pc = "classified" =>
        LET b == sample.board
            sl == sample.slot
            active == Unwrap(sample.active)
            complete == Unwrap(sample.complete)
        IN  /\ active <=> (b.start_slot <= sl /\ sl < b.end_slot)
            /\ complete <=> sl >= b.end_slot
            /\ sl < b.start_slot => ~active /\ ~complete
            /\ ~(active /\ complete)
            /\ sl = b.end_slot => complete /\ ~active
            /\ (b.start_slot = 1000 /\ b.end_slot = 1010) =>
                   /\ sl = 995 => ~active /\ ~complete
                   /\ sl = 1005 => active /\ ~complete
                   /\ sl = 1012 => complete /\ ~active

\* slot 1010 of the Board of slots 1000 to 1010 is complete and not active
C25_Witness ==
    /\ sample.pc = "classified"
    /\ sample.board.start_slot = 1000
    /\ sample.board.end_slot = 1010
    /\ sample.slot = 1010
    /\ sample.complete = Some(TRUE)
    /\ sample.active = Some(FALSE)

Selected == "selected" \in DOMAIN sample /\ sample.pc \in {"deploy_args", "instruction"}

\* C26: select_blocks(count) returns min(count, 25) blocks, no two with the
\* same index, each index in 0..24 and equal to row * 5 + col; the mask of
\* the Deploy built for them has that many bits set, and the amount that goes
\* to record_bet is the stake per block times that number.
C26_SelectedBlocks ==
    Selected =>
        LET selected == sample.selected
            n == Min(sample.count, 25)
        IN  /\ selected \in select_blocks(sample.count)
            /\ Len(selected) = n
            /\ \A i, j \in DOMAIN selected : i # j => selected[i].index # selected[j].index
            /\ \A i \in DOMAIN selected :
                  /\ selected[i].index \in 0..24
                  /\ selected[i].index = selected[i].row * 5 + selected[i].col
                  /\ selected[i].row \in 0..4
                  /\ selected[i].col \in 0..4
            /\ sample.total_bet = sample.amount * n
            /\ sample.pc = "instruction" =>
                  BitsSet(SubSeq(Unwrap(sample.result).data, 10, 13), 32) = n

\* three blocks of a scattering shuffle have gone into a Deploy
C26_Witness ==
    /\ Selected
    /\ sample.pc = "instruction"
    /\ sample.count = 3
    /\ sample.amount = 10000000
    /\ block_indices(sample.blocks) = {10, 17, 24}
    /\ sample.total_bet = 30000000

(***************************************************************************)
(* More claims about the orchestrator                                      *)
(***************************************************************************)

BareDeploy(instructions) == Len(instructions) = 1 /\ IsDeploy(instructions[1])

\* a step that changes what record_bet writes
BetRecorded == state'.total_bet_lamports # state.total_bet_lamports

\* the main task takes the Ok of the executor and records the stake of the bet
BetConfirmed ==
    /\ mainpc = "bet"
    /\ mainpc' # "bet"
    /\ exec.pc = "returned"
    /\ Unwrap(exec.result).ok
    /\ state'.total_bet_lamports = state.total_bet_lamports + round.total_bet

\* C27 as stated: the transaction of a bet is [Checkpoint, Deploy] exactly
\* when the agent's Miner record exists with checkpoint_id # round_id, and a
\* Deploy alone exactly when the record exists with checkpoint_id = round_id
\* or no record exists; record_bet is called once, in the step that takes the
\* confirmation of that transaction, and not otherwise.
C27_ShapeFromMinerRecord ==
    /\ [](mainpc = "bet" /\ IsSome(last_tx) =>
             /\ CheckpointThenDeploy(Unwrap(last_tx).tx.instructions) <=> UnsettledAtPrepare
             /\ BareDeploy(Unwrap(last_tx).tx.instructions) <=> ~UnsettledAtPrepare)
    /\ [][BetRecorded <=> BetConfirmed]_vars

(***************************************************************************)
(* More claims about the Synchronizer                                      *)
(***************************************************************************)

\* what a read of the account through deserialize_account reports of it
DirectRead(account) ==
    LET m == Unwrap(deserialize_account(AccountData(account)).val)
    IN  Miner(m.checkpoint_id, m.round_id, m.rewards_sol, m.rewards_ore)

\* C28 as stated: the snapshot written from a notification is the Miner that
\* deserialize_account yields for the account's bytes, the discriminator
\* skipped, so its rewards_sol is the rewards_sol of a direct read.
C28_SnapshotIsDirectRead ==
    IsSome(miner_state) =>
        \E account \in StreamAccounts : Unwrap(miner_state) = DirectRead(account)

\* what the main flow keeps in MartingaleState
SetByMain(s) ==
    << s.current_bet_per_block, s.consecutive_losses, s.total_bet_lamports,
       s.current_cycle_bet_lamports, s.current_round, s.win_count, s.loss_count,
       s.last_win_time >>

\* the task writes MartingaleState in this step
TaskWrites == TaskStep /\ state' # state

\* C29: a step of a reward task leaves the stake, the losses in a row, the
\* bet totals of the cycle and of the lifetime, current_round and the win and
\* loss counters as the main flow has set them, whatever the main flow has
\* done since the win; a step that changes MartingaleState is the
\* update_earnings of a task, made with the lock free, and it adds to
\* total_earned_ore and total_earned_sol what the task has measured.
C29_TaskChangesEarningsOnly ==
    [][TaskStep =>
          /\ SetByMain(state') = SetByMain(state)
          /\ state'.total_earned_ore >= state.total_earned_ore
          /\ state'.total_earned_sol >= state.total_earned_sol
          /\ state' # state =>
                /\ Free(held, "martingale_state")
                /\ last_call'.op = "update_earnings"
                /\ \E i \in DOMAIN tasks :
                      /\ tasks[i].pc = "earnings"
                      /\ tasks'[i].pc = "notify_win"
                      /\ state' = update_earnings(state,
                            saturating_sub(tasks[i].rewards_ore_after, tasks[i].rewards_ore_before),
                            saturating_sub(tasks[i].rewards_sol_after, tasks[i].rewards_sol_before))]_vars

\* the task of the first round has added its earnings after the main flow
\* has set current_round for the round after
C29_Witness ==
    /\ Len(tasks) = 1
    /\ tasks[1].round_id = FirstRound
    /\ tasks[1].pc = "notify_win"
    /\ last_call.op = "update_earnings"
    /\ state.total_earned_sol > 0
    /\ state.total_earned_ore > 0
    /\ state.current_round = FirstRound + 1
    /\ state.win_count = 1

\* the order of the steps of a reward task
TaskRank(pc) ==
    CASE pc = "wss_wait" -> 0
      [] pc = "rpc_fallback" -> 1
      [] pc = "retry" -> 2
      [] pc \in {"claim", "claim_send", "claim_backoff"} -> 3
      [] pc \in {"claim_balance", "claim_error"} -> 4
      [] pc = "claim_notify" -> 5
      [] pc = "earnings" -> 6
      [] pc = "notify_win" -> 7
      [] pc = "stats" -> 8
      [] pc = "notify_stats" -> 9
      [] pc = "done" -> 10
      [] pc \in {"dropped", "dropped_late"} -> 11

\* where a task stands inside execute_claim_sol, and in the arms of its
\* result (main.rs 496-513)
InClaim == {"claim", "claim_send", "claim_backoff"}
AfterClaim == {"claim_balance", "claim_notify", "claim_error"}

\* the task leaves the reward wait in this step, with the accumulated
\* rewards it has read
LeavesWait(i) == tasks[i].pc = "retry" /\ tasks'[i].pc # "retry"

\* C30: the task calls execute_claim_sol iff the accumulated rewards_sol it
\* reads after the reward wait (what the ledger holds, or 0 from a failed
\* read) are at or above auto_claim_sol_threshold_lamports; the call is
\* entered from the reward wait alone and the task never goes back, so that
\* there is one call at most for a win, of max_retries attempts at most; and
\* whatever the read and the attempts give, the task comes to update_earnings
\* and to the win notice: a claim can fail, its last failure goes on to
\* update_earnings, and nothing but update_earnings with the win notice
\* follows.
C30_ClaimAtThreshold ==
    /\ [](\A i \in DOMAIN tasks :
            /\ tasks[i].attempt <= max_retries
            /\ tasks[i].pc = "claim" => ENABLED TaskClaimBlockhashErr(i)
            /\ tasks[i].pc = "claim_send" => ENABLED TaskClaimRejected(i)
            /\ tasks[i].pc = "claim_error" => ENABLED TaskClaimError(i)
            /\ tasks[i].pc = "earnings" => ENABLED TaskEarnings(i)
            /\ tasks[i].pc = "notify_win" => ENABLED TaskWinNotified(i))
    /\ [][\A i \in DOMAIN tasks :
            /\ TaskRank(tasks'[i].pc) >= TaskRank(tasks[i].pc)
            /\ tasks'[i].pc \in InClaim /\ tasks[i].pc \notin InClaim =>
                  /\ tasks[i].pc = "retry"
                  /\ tasks'[i].pc = "claim"
                  /\ tasks'[i].attempt = 1]_vars
    /\ [][TaskStep => \A i \in DOMAIN tasks :
            /\ LeavesWait(i) =>
                  LET accumulated_rewards == Unwrap(tasks'[i].accumulated_rewards)
                  IN  /\ accumulated_rewards \in {0, Unwrap(ledger_miner).rewards_sol}
                      /\ tasks'[i].pc \in {"claim", "earnings"}
                      /\ tasks'[i].pc = "claim" <=>
                            accumulated_rewards >=
                               auto_claim_sol_threshold_lamports(config.monitoring)
            /\ tasks[i].pc \in InClaim /\ tasks'[i].pc \notin InClaim =>
                  tasks'[i].pc \in AfterClaim
            /\ tasks[i].pc \in AfterClaim /\ tasks'[i].pc \notin AfterClaim =>
                  tasks'[i].pc = "earnings"
            /\ tasks[i].pc \in InClaim /\ tasks'[i].pc \in InClaim =>
                  tasks'[i].attempt =
                     IF tasks[i].pc = "claim_backoff" /\ tasks'[i].pc = "claim"
                     THEN tasks[i].attempt + 1
                     ELSE tasks[i].attempt
            /\ tasks[i].pc = "earnings" /\ tasks'[i].pc # "earnings" =>
                  /\ tasks'[i].pc = "notify_win"
                  /\ last_call'.op = "update_earnings"
            /\ tasks[i].pc = "notify_win" /\ tasks'[i].pc # "notify_win" =>
                  /\ tasks'[i].pc = "stats"
                  /\ last_notice' = "win"]_vars

\* the claim of the first win has been called at or above the threshold, all
\* its attempts have failed without a claim on the ledger (rewards_ore counts
\* what has been credited, and rewards_sol still has it all), and the task
\* stands at update_earnings
C30_Witness ==
    /\ Len(tasks) = 1
    /\ tasks[1].pc = "earnings"
    /\ tasks[1].accumulated_rewards = None
    /\ last_notice = "error"
    /\ Unwrap(ledger_miner).rewards_sol = Unwrap(ledger_miner).rewards_ore
    /\ Unwrap(ledger_miner).rewards_sol >= auto_claim_sol_threshold_lamports(config.monitoring)
    /\ auto_claim_sol_threshold_lamports(config.monitoring) = 2

\* the worker takes a message that is no account notification, or an account
\* notification that parse_miner refuses
NothingDecoded ==
    \/ WssIgnored
    \/ WssNotification /\ wss'.logged = "parse failed"

\* C31: a text that is no notification, a notification of another method, a
\* Ping or Pong, and an accountNotification that parse_miner refuses leave the
\* snapshot as it was; the worker stays in its message loop with the stream,
\* the keep-alive task and the retry delay it had, and goes on to the next
\* message without another parse_miner of this one.
C31_UndecodedIsIgnored ==
    /\ [](\A msg \in StreamNotifications(StreamAccounts) :
            ~parse_miner(msg).ok => snapshot_after(msg, miner_state) = miner_state)
    /\ [][NothingDecoded =>
            /\ miner_state' = miner_state
            /\ wss.pc = "streaming" /\ wss'.pc = "streaming"
            /\ wss'.keepalive = wss.keepalive
            /\ wss'.retry_delay_ms = wss.retry_delay_ms
            /\ held' = held]_vars

\* a notification has been refused by parse_miner after the snapshot had
\* been written; the snapshot is there and the worker is in its loop
C31_Witness ==
    /\ wss.pc = "streaming"
    /\ wss.logged = "parse failed"
    /\ IsSome(miner_state)

\* the step is the update_earnings of task i, with what the task has
\* measured: the last rewards it has seen less those of before the bet, or 0
UpdatesEarnings(i) ==
    /\ tasks[i].pc = "earnings"
    /\ tasks'[i].pc = "notify_win"
    /\ state' = update_earnings(state,
          saturating_sub(tasks[i].rewards_ore_after, tasks[i].rewards_ore_before),
          saturating_sub(tasks[i].rewards_sol_after, tasks[i].rewards_sol_before))

\* C32: no reward task ends before its update_earnings; a task makes at most
\* MAX_REWARDS_RETRIES passes of the retry loop and at most max_retries
\* attempts of a claim, never steps back, and comes to its win notice by one
\* step, which is update_earnings with the difference of the last rewards
\* seen and those of before the bet.
C32_TaskRunsToUpdate ==
    /\ [](\A i \in DOMAIN tasks :
            /\ tasks[i].pc # "dropped"
            /\ tasks[i].retry_count <= MAX_REWARDS_RETRIES
            /\ tasks[i].attempt <= max_retries)
    /\ [][\A i \in DOMAIN tasks :
            /\ TaskRank(tasks'[i].pc) >= TaskRank(tasks[i].pc)
            /\ TaskRank(tasks[i].pc) < 7 /\ TaskRank(tasks'[i].pc) \in 7..10 =>
                  UpdatesEarnings(i)]_vars

\* C33: under a cap of 1 or more, consecutive_losses is below the cap after
\* every operation of MartingaleState, in whatever order they are called;
\* the operations that change it are on_loss (which counts, and resets at
\* the cap), reset_after_win, and reset, the reset of the cap, when it is
\* called by itself.
C33_LossesBelowCap ==
    /\ [](config.martingale.max_consecutive_losses >= 1 =>
            state.consecutive_losses < config.martingale.max_consecutive_losses)
    /\ [][state'.consecutive_losses # state.consecutive_losses =>
            /\ last_call'.op \in {"on_loss", "reset_after_win", "reset"}
            /\ last_call'.op \in {"reset_after_win", "reset"} => state'.consecutive_losses = 0
            /\ last_call'.op = "on_loss" =>
                  state'.consecutive_losses \in {0, state.consecutive_losses + 1}]_vars

\* the second loss in a row under a cap of 2: on_loss has counted it, has
\* reset the count and has returned that the betting stops
C33_Witness ==
    /\ config.martingale.max_consecutive_losses = 2
    /\ last_call.op = "on_loss"
    /\ ~last_call.should_continue
    /\ state.loss_count = 2
    /\ state.win_count = 0
    /\ state.consecutive_losses = 0

\* C34: across the whole outer loop at most one bet is successfully submitted
\* for any round_id: the calls of execute_bet / execute_checkpoint_and_bet
\* that returned Ok name pairwise different rounds, also after a round that
\* ended in an error (settlement timeout, failed Round read) and was retried.
C34_OneBetPerRound ==
    \A i \in DOMAIN bets : \A j \in DOMAIN bets : i # j => bets[i] # bets[j]

\* C35: every confirmed bet is resolved exactly once: whenever
\* run_betting_round has returned, the bets recorded by record_bet are as many
\* as win_count + loss_count, and a bet is recorded only when every bet
\* recorded before it has been resolved by reset_after_win or on_loss.
C35_EveryBetResolved ==
    /\ [](mainpc = "after_round" => Len(bets) = Played(state))
    /\ [][bets' # bets => Len(bets) = Played(state)]_vars

\* the SOL the ledger has credited to the Miner since the program started:
\* LedgerCredit credits a unit of ORE with every lamport, and the ORE stays
CreditedSol == IF IsSome(ledger_miner) THEN Unwrap(ledger_miner).rewards_ore ELSE 0

\* C36: total_earned_sol never exceeds the SOL the ledger has credited to the
\* agent's Miner since startup, whatever the interleaving of crediting,
\* claims and reward tasks: no credited reward is counted by two
\* update_earnings.
C36_EarnedWithinCredited == state.total_earned_sol <= CreditedSol

\* C37: after a bet in round r settlement is judged against round r: when a
\* Board poll of the settlement loop has succeeded while the ledger's slot is
\* at or past the end_slot of the round of the bet, the Board it has read
\* counts as complete, so that the loop exits with the slot read that
\* follows, also when the Board has gone on to the next round.
C37_SettledAgainstBetRound ==
    (mainpc = "settle_slot" /\ slot >= round.board.end_slot)
        => RoundComplete(round.board_check, slot)

\* C38: no multiple of stats_notification_interval is reported by two stats
\* notifications, and once every reward task has come to its end and the
\* main task is out of its loss path each positive multiple that
\* win_count + loss_count has reached has been reported, whatever the
\* interleaving of main and the reward tasks.
C38_StatsOncePerMultiple ==
    /\ \A i \in DOMAIN stats_sent : \A j \in DOMAIN stats_sent :
           i # j => stats_sent[i] # stats_sent[j]
    /\ (mainpc \notin LossPath /\ \A i \in DOMAIN tasks : tasks[i].pc = "done")
           => \A m \in 1..Played(state) :
                 m % config.discord.stats_notification_interval = 0
                     => \E i \in DOMAIN stats_sent : stats_sent[i] = m

\* C39: the outer loop ends only because on_loss returned continue = false
\* or because a balance read was below the floor: no step takes main out of
\* the loop for another reason, a failed balance, Board or slot read least
\* of all.
C39_LoopEndsForTwoReasons ==
    [][(mainpc \notin {"start", "init_miner", "exited", "failed"}
          /\ mainpc' \in {"exited", "failed"})
        => (limit_reached' \/ low_balance')]_vars

\* C40: every Deploy that lands is recorded by record_bet, so that
\* total_bet_lamports is the sum of the stakes the ledger has taken: when a
\* call of execute_bet / execute_checkpoint_and_bet returns and the ledger's
\* Miner is no longer what it was when the bet was prepared (a Deploy of the
\* call has landed), the stake of the bet is added to total_bet_lamports,
\* also when the confirmation of the attempt that landed was lost.
C40_LandedDeployIsRecorded ==
    [][(mainpc = "bet" /\ mainpc' # "bet" /\ ledger_miner # at_prepare)
        => state'.total_bet_lamports = state.total_bet_lamports + round.total_bet]_vars

====
